---- MODULE Spec2Model ----
(***************************************************************************)
(* State-machine model of the CDO equation controller of code_saturne      *)
(* (src/src/cdo/cs_equation.c): one equation, its parameter set, its       *)
(* life cycle (configure, last_setup, init_system, build_system, solve)    *)
(* and the process-wide registry of linear solvers.                        *)
(*                                                                         *)
(* C strings are TLA+ strings; strcmp(a, b) == 0 is a = b.  bft_error      *)
(* never returns: the call that raises it stops where it is, the state is  *)
(* the one reached at that point, err names the error and no later         *)
(* operation runs.                                                         *)
(***************************************************************************)
EXTENDS Integers, Sequences, FiniteSets, TLC

VARIABLES
  have_petsc,  \* build configuration: HAVE_PETSC defined or not
  eqp,         \* eq->param, the cs_equation_param_t of the equation
  eq,          \* the other members of the cs_equation_t structure
  fld,         \* the cs_field_t attached to the equation (val, val_pre)
  sles,        \* process-wide solver registry: field id -> solver
  err,         \* "none", or the error raised by bft_error
  last,        \* the last public function called and its arguments
  cnt,         \* number of calls made so far, per kind (for the bounds)
  post         \* the static variables of cs_post.c: writers and meshes

vars == <<have_petsc, eqp, eq, fld, sles, err, last, cnt, post>>

(***************************************************************************)
(* Bounds of the model                                                     *)
(***************************************************************************)
\* calls that configure the equation (set_option, link, add, set) per run
MaxCalls == 2
\* cs_equation_last_setup calls per run
MaxSetups == 2
\* cs_equation_init_system calls per run
MaxInits == 1
\* cs_equation_build_system calls per run
MaxBuilds == 2
\* cs_equation_solve calls per run
MaxSolves == 2
\* The number of cs_equation_set_option calls before the setup of the solver
MaxSolverCalls == 3
\* calls of the post-processing layer per run
MaxPostCalls == 5

(***************************************************************************)
(* C library functions used by the code                                    *)
(***************************************************************************)
Min(a, b) == IF a <= b THEN a ELSE b

CharAt(s, i) == SubSeq(s, i, i)

\* strncmp(a, b, n) == 0: the first n characters agree (or both strings end
\* before n characters, and agree).
strncmp0(a, b, n) == SubSeq(a, 1, Min(n, Len(a))) = SubSeq(b, 1, Min(n, Len(b)))

Digits == {"0", "1", "2", "3", "4", "5", "6", "7", "8", "9"}

DigitVal(c) ==
  CASE c = "0" -> 0 [] c = "1" -> 1 [] c = "2" -> 2 [] c = "3" -> 3
    [] c = "4" -> 4 [] c = "5" -> 5 [] c = "6" -> 6 [] c = "7" -> 7
    [] c = "8" -> 8 [] c = "9" -> 9

IsDigitAt(s, i) == i <= Len(s) /\ CharAt(s, i) \in Digits

\* Reads the decimal digits of s from position i on: the number read (after
\* acc), the number of digits read and the position of the first character
\* that is not a digit.
RECURSIVE ReadDigits(_, _, _, _)
ReadDigits(s, i, acc, n) ==
  IF IsDigitAt(s, i)
    THEN ReadDigits(s, i + 1, acc * 10 + DigitVal(CharAt(s, i)), n + 1)
    ELSE [val |-> acc, n |-> n, pos |-> i]

\* Position after an optional sign at position i.
AfterSign(s, i) == IF i <= Len(s) /\ CharAt(s, i) \in {"+", "-"} THEN i + 1 ELSE i
NegAt(s, i) == i <= Len(s) /\ CharAt(s, i) = "-"

\* atoi: optional sign, then decimal digits; 0 when there is no digit.
atoi(s) ==
  LET r == ReadDigits(s, AfterSign(s, 1), 0, 0)
  IN  IF NegAt(s, 1) THEN 0 - r.val ELSE r.val

\* A double is kept as the exact decimal number it was read from:
\* (-1)^neg * m * 10^e (times 1/3 or 1/sqrt(3) for the two constants the
\* code computes), m without trailing zero.
RECURSIVE Normalize(_, _, _)
Normalize(neg, m, e) ==
  IF m = 0 THEN [neg |-> neg, m |-> 0, e |-> 0, irr |-> ""]
  ELSE IF m % 10 = 0 THEN Normalize(neg, m \div 10, e + 1)
  ELSE [neg |-> neg, m |-> m, e |-> e, irr |-> ""]

Dbl(m, e) == Normalize(FALSE, m, e)
OneThird == [neg |-> FALSE, m |-> 1, e |-> 0, irr |-> "/3"]
OneOverSqrt3 == [neg |-> FALSE, m |-> 1, e |-> 0, irr |-> "/sqrt(3)"]

\* atof: [sign] digits [. digits] [e|E [sign] digits]; 0.0 when the string
\* does not start with a number.
atof(s) ==
  LET i0   == AfterSign(s, 1)
      ip   == ReadDigits(s, i0, 0, 0)
      dot  == ip.pos <= Len(s) /\ CharAt(s, ip.pos) = "."
      fp   == IF dot THEN ReadDigits(s, ip.pos + 1, ip.val, 0)
                     ELSE [val |-> ip.val, n |-> 0, pos |-> ip.pos]
      nmant == ip.n + fp.n
      hasE == fp.pos <= Len(s) /\ CharAt(s, fp.pos) \in {"e", "E"}
      j0   == AfterSign(s, fp.pos + 1)
      ep   == IF hasE THEN ReadDigits(s, j0, 0, 0)
                      ELSE [val |-> 0, n |-> 0, pos |-> fp.pos]
      ex   == IF hasE /\ ep.n > 0
                THEN (IF NegAt(s, fp.pos + 1) THEN 0 - ep.val ELSE ep.val)
                ELSE 0
  IN  IF nmant = 0 THEN Normalize(FALSE, 0, 0)
      ELSE Normalize(NegAt(s, 1), fp.val, ex - fp.n)

\* Number of decimal digits of m > 0.
RECURSIVE NDigits(_)
NDigits(m) == IF m < 10 THEN 1 ELSE 1 + NDigits(m \div 10)

RECURSIVE Pow10(_)
Pow10(n) == IF n <= 0 THEN 1 ELSE 10 * Pow10(n - 1)

\* fabs(d) < DBL_MIN, DBL_MIN = 2.2250738585072014e-308, for a double read
\* from at most four significant digits: d = 0, or d has a smaller decimal
\* order of magnitude than DBL_MIN, or the same one and leading digits at
\* most 2.225 (< 2.22507...).
DblMinExp10 == 0 - 307  \* DBL_MIN lies in [10^(DblMinExp10 - 1), 10^DblMinExp10)
DblMinLead4 == 2225     \* first four significant digits of DBL_MIN

fabs_lt_DBL_MIN(d) ==
  \/ d.m = 0
  \/ /\ d.m > 0
     /\ LET mag == NDigits(d.m) + d.e
        IN  \/ mag < DblMinExp10
            \/ /\ mag = DblMinExp10
               /\ d.irr = ""
               /\ NDigits(d.m) <= 4
               /\ d.m * Pow10(4 - NDigits(d.m)) <= DblMinLead4


(***************************************************************************)
(* Keys of cs_equation_set_option                                          *)
(***************************************************************************)
\* eqkey_t, in the order of the enumeration (EQKEY_ERROR comes last).
EqKeys ==
  << "EQKEY_HODGE_DIFF_ALGO", "EQKEY_HODGE_DIFF_COEF", "EQKEY_HODGE_TIME_ALGO",
     "EQKEY_HODGE_TIME_COEF", "EQKEY_ITSOL", "EQKEY_ITSOL_EPS",
     "EQKEY_ITSOL_MAX_ITER", "EQKEY_ITSOL_RESNORM", "EQKEY_PRECOND",
     "EQKEY_SOLVER_FAMILY", "EQKEY_SPACE_SCHEME", "EQKEY_VERBOSITY",
     "EQKEY_SLES_VERBOSITY", "EQKEY_BC_ENFORCEMENT", "EQKEY_BC_QUADRATURE",
     "EQKEY_EXTRA_OP", "EQKEY_ADV_OP_TYPE", "EQKEY_ADV_WEIGHT_ALGO",
     "EQKEY_ADV_WEIGHT_CRIT", "EQKEY_ADV_FLUX_QUADRA", "EQKEY_TIME_SCHEME",
     "EQKEY_TIME_THETA" >>

EQKEY_ERROR == "EQKEY_ERROR"

_print_eqkey(key) ==
  CASE key = "EQKEY_HODGE_DIFF_ALGO" -> "hodge_diff_algo"
    [] key = "EQKEY_HODGE_DIFF_COEF" -> "hodge_diff_coef"
    [] key = "EQKEY_HODGE_TIME_ALGO" -> "hodge_time_algo"
    [] key = "EQKEY_HODGE_TIME_COEF" -> "hodge_time_coef"
    [] key = "EQKEY_ITSOL" -> "itsol"
    [] key = "EQKEY_ITSOL_EPS" -> "itsol_eps"
    [] key = "EQKEY_ITSOL_MAX_ITER" -> "itsol_max_iter"
    [] key = "EQKEY_ITSOL_RESNORM" -> "itsol_resnorm"
    [] key = "EQKEY_PRECOND" -> "precond"
    [] key = "EQKEY_SOLVER_FAMILY" -> "solver_family"
    [] key = "EQKEY_SPACE_SCHEME" -> "space_scheme"
    [] key = "EQKEY_VERBOSITY" -> "verbosity"
    [] key = "EQKEY_SLES_VERBOSITY" -> "itsol_verbosity"
    [] key = "EQKEY_BC_ENFORCEMENT" -> "bc_enforcement"
    [] key = "EQKEY_BC_QUADRATURE" -> "bc_quadrature"
    [] key = "EQKEY_EXTRA_OP" -> "extra_op"
    [] key = "EQKEY_ADV_OP_TYPE" -> "adv_formulation"
    [] key = "EQKEY_ADV_WEIGHT_ALGO" -> "adv_weight"
    [] key = "EQKEY_ADV_WEIGHT_CRIT" -> "adv_weight_criterion"
    [] key = "EQKEY_ADV_FLUX_QUADRA" -> "adv_flux_quad"
    [] key = "EQKEY_TIME_SCHEME" -> "time_scheme"
    [] key = "EQKEY_TIME_THETA" -> "time_theta"

\* A plausible slip in _get_eqkey: the keys that begin with adv_ are told
\* apart by their prefix, adv_weight being tested first.
Mut_get_eqkey(keyname) ==
  IF strncmp0(keyname, "hodge", 5) THEN
    IF keyname = "hodge_diff_coef" THEN "EQKEY_HODGE_DIFF_COEF"
    ELSE IF keyname = "hodge_diff_algo" THEN "EQKEY_HODGE_DIFF_ALGO"
    ELSE IF keyname = "hodge_time_coef" THEN "EQKEY_HODGE_TIME_COEF"
    ELSE IF keyname = "hodge_time_algo" THEN "EQKEY_HODGE_TIME_ALGO"
    ELSE EQKEY_ERROR
  ELSE IF strncmp0(keyname, "itsol", 5) THEN
    IF keyname = "itsol" THEN "EQKEY_ITSOL"
    ELSE IF keyname = "itsol_eps" THEN "EQKEY_ITSOL_EPS"
    ELSE IF keyname = "itsol_max_iter" THEN "EQKEY_ITSOL_MAX_ITER"
    ELSE IF keyname = "itsol_resnorm" THEN "EQKEY_ITSOL_RESNORM"
    ELSE IF keyname = "itsol_verbosity" THEN "EQKEY_SLES_VERBOSITY"
    ELSE EQKEY_ERROR
  ELSE IF keyname = "precond" THEN "EQKEY_PRECOND"
  ELSE IF keyname = "solver_family" THEN "EQKEY_SOLVER_FAMILY"
  ELSE IF keyname = "space_scheme" THEN "EQKEY_SPACE_SCHEME"
  ELSE IF keyname = "verbosity" THEN "EQKEY_VERBOSITY"
  ELSE IF strncmp0(keyname, "bc", 2) THEN
    IF keyname = "bc_enforcement" THEN "EQKEY_BC_ENFORCEMENT"
    ELSE IF keyname = "bc_quadrature" THEN "EQKEY_BC_QUADRATURE"
    ELSE EQKEY_ERROR
  ELSE IF keyname = "extra_op" THEN "EQKEY_EXTRA_OP"
  ELSE IF strncmp0(keyname, "adv_", 4) THEN
    IF keyname = "adv_formulation" THEN "EQKEY_ADV_OP_TYPE"
    ELSE IF strncmp0(keyname, "adv_weight", 10) THEN "EQKEY_ADV_WEIGHT_ALGO"
    ELSE IF keyname = "adv_weight_criterion" THEN "EQKEY_ADV_WEIGHT_CRIT"
    ELSE IF keyname = "adv_flux_quad" THEN "EQKEY_ADV_FLUX_QUADRA"
    ELSE EQKEY_ERROR
  ELSE IF strncmp0(keyname, "time_", 5) THEN
    IF keyname = "time_scheme" THEN "EQKEY_TIME_SCHEME"
    ELSE IF keyname = "time_theta" THEN "EQKEY_TIME_THETA"
    ELSE EQKEY_ERROR
  ELSE EQKEY_ERROR

_get_eqkey(keyname) ==
  IF strncmp0(keyname, "hodge", 5) THEN
    IF keyname = "hodge_diff_coef" THEN "EQKEY_HODGE_DIFF_COEF"
    ELSE IF keyname = "hodge_diff_algo" THEN "EQKEY_HODGE_DIFF_ALGO"
    ELSE IF keyname = "hodge_time_coef" THEN "EQKEY_HODGE_TIME_COEF"
    ELSE IF keyname = "hodge_time_algo" THEN "EQKEY_HODGE_TIME_ALGO"
    ELSE EQKEY_ERROR
  ELSE IF strncmp0(keyname, "itsol", 5) THEN
    IF keyname = "itsol" THEN "EQKEY_ITSOL"
    ELSE IF keyname = "itsol_eps" THEN "EQKEY_ITSOL_EPS"
    ELSE IF keyname = "itsol_max_iter" THEN "EQKEY_ITSOL_MAX_ITER"
    ELSE IF keyname = "itsol_resnorm" THEN "EQKEY_ITSOL_RESNORM"
    ELSE IF keyname = "itsol_verbosity" THEN "EQKEY_SLES_VERBOSITY"
    ELSE EQKEY_ERROR
  ELSE IF keyname = "precond" THEN "EQKEY_PRECOND"
  ELSE IF keyname = "solver_family" THEN "EQKEY_SOLVER_FAMILY"
  ELSE IF keyname = "space_scheme" THEN "EQKEY_SPACE_SCHEME"
  ELSE IF keyname = "verbosity" THEN "EQKEY_VERBOSITY"
  ELSE IF strncmp0(keyname, "bc", 2) THEN
    IF keyname = "bc_enforcement" THEN "EQKEY_BC_ENFORCEMENT"
    ELSE IF keyname = "bc_quadrature" THEN "EQKEY_BC_QUADRATURE"
    ELSE EQKEY_ERROR
  ELSE IF keyname = "extra_op" THEN "EQKEY_EXTRA_OP"
  ELSE IF strncmp0(keyname, "adv_", 4) THEN
    IF keyname = "adv_formulation" THEN "EQKEY_ADV_OP_TYPE"
    ELSE IF keyname = "adv_weight_criterion" THEN "EQKEY_ADV_WEIGHT_CRIT"
    ELSE IF keyname = "adv_weight" THEN "EQKEY_ADV_WEIGHT_ALGO"
    ELSE IF keyname = "adv_flux_quad" THEN "EQKEY_ADV_FLUX_QUADRA"
    ELSE EQKEY_ERROR
  ELSE IF strncmp0(keyname, "time_", 5) THEN
    IF keyname = "time_scheme" THEN "EQKEY_TIME_SCHEME"
    ELSE IF keyname = "time_theta" THEN "EQKEY_TIME_THETA"
    ELSE EQKEY_ERROR
  ELSE EQKEY_ERROR

(***************************************************************************)
(* The parameter set                                                       *)
(***************************************************************************)
NULL == "NULL"

\* A null pointer to a structure
NoObject == [null |-> TRUE]

\* cs_param_bc_create: the boundary-condition structure, with no definition.
cs_param_bc_create(default_bc) ==
  [ default_bc  |-> default_bc,
    enforcement |-> "CS_PARAM_BC_ENFORCE_STRONG",
    quad_type   |-> "CS_QUADRATURE_BARY",
    use_subdiv  |-> FALSE,
    n_defs      |-> 0,
    defs        |-> << >> ]

_algo_info_by_default(petsc) ==
  [ type |-> IF petsc THEN "CS_EQUATION_ALGO_PETSC_ITSOL"
                      ELSE "CS_EQUATION_ALGO_CS_ITSOL",
    n_iters |-> 0, n_max_iters |-> 50,
    n_cumulated_iters |-> 0, n_max_cumulated_iters |-> 10000,
    eps |-> Dbl(1, 0 - 6) ]

_itsol_info_by_default(petsc) ==
  [ precond |-> IF petsc THEN "CS_PARAM_PRECOND_ILU0" ELSE "CS_PARAM_PRECOND_DIAG",
    solver  |-> IF petsc THEN "CS_PARAM_ITSOL_BICG" ELSE "CS_PARAM_ITSOL_CG",
    n_max_iter |-> 2500,
    eps |-> Dbl(1, 0 - 12),
    output_freq |-> 150,
    resid_normalized |-> FALSE ]

\* _create_equation_param.  time_hodge.coef is not assigned there: the
\* structure comes from BFT_MALLOC, so the member holds whatever the
\* memory held (garbage).
_create_equation_param(type, var_type, default_bc, petsc, garbage) ==
  [ type |-> type,
    var_type |-> var_type,
    verbosity |-> 0,
    sles_verbosity |-> 0,
    process_flag |-> {},
    flag |-> {},
    space_scheme |-> "CS_SPACE_SCHEME_CDOVB",
    time_hodge |-> [ inv_pty |-> FALSE, type |-> "CS_PARAM_HODGE_TYPE_VPCD",
                     algo |-> "CS_PARAM_HODGE_ALGO_VORONOI", coef |-> garbage ],
    time_property |-> NULL,
    time_info |-> [ scheme |-> "CS_TIME_SCHEME_IMPLICIT", theta |-> Dbl(1, 0),
                    do_lumping |-> FALSE,
                    n_ic_definitions |-> 0, ic_definitions |-> << >> ],
    diffusion_property |-> NULL,
    diffusion_hodge |-> [ inv_pty |-> FALSE, type |-> "CS_PARAM_HODGE_TYPE_EPFD",
                          algo |-> "CS_PARAM_HODGE_ALGO_COST", coef |-> OneThird ],
    advection_info |-> [ formulation |-> "CS_PARAM_ADVECTION_FORM_CONSERV",
                         weight_algo |-> "CS_PARAM_ADVECTION_WEIGHT_ALGO_UPWIND",
                         weight_criterion |-> "CS_PARAM_ADVECTION_WEIGHT_XEXC",
                         quad_type |-> "CS_QUADRATURE_BARY" ],
    advection_field |-> NULL,
    n_reaction_terms |-> 0,
    reaction_terms |-> << >>,
    reaction_properties |-> << >>,
    n_source_terms |-> 0,
    source_terms |-> << >>,
    bc |-> cs_param_bc_create(default_bc),
    algo_info |-> _algo_info_by_default(petsc),
    itsol_info |-> _itsol_info_by_default(petsc) ]


(***************************************************************************)
(* cs_equation_set_option: the switch on the key.  Each case gives the     *)
(* error raised ("none" when the call returns) and the parameter set at    *)
(* that point.                                                             *)
(***************************************************************************)
Ok(p) == [err |-> "none", eqp |-> p]
Fail(e, p) == [err |-> e, eqp |-> p]

\* A plausible slip: the space scheme is changed without its Hodge types.
MutSetSpaceScheme(p, val) ==
  IF val = "cdo_vb" THEN Ok([p EXCEPT !.space_scheme = "CS_SPACE_SCHEME_CDOVB"])
  ELSE IF val = "cdo_fb" THEN Ok([p EXCEPT !.space_scheme = "CS_SPACE_SCHEME_CDOFB"])
  ELSE Fail("InvalidValue", p)

SetSpaceScheme(p, val) ==
  IF val = "cdo_vb" THEN
    Ok([p EXCEPT !.space_scheme = "CS_SPACE_SCHEME_CDOVB",
                 !.time_hodge.type = "CS_PARAM_HODGE_TYPE_VPCD",
                 !.diffusion_hodge.type = "CS_PARAM_HODGE_TYPE_EPFD"])
  ELSE IF val = "cdo_fb" THEN
    Ok([p EXCEPT !.space_scheme = "CS_SPACE_SCHEME_CDOFB",
                 !.time_hodge.type = "CS_PARAM_HODGE_TYPE_CPVD",
                 !.diffusion_hodge.type = "CS_PARAM_HODGE_TYPE_EDFP"])
  ELSE Fail("InvalidValue", p)

HodgeAlgo(val) ==
  IF val = "cost" THEN "CS_PARAM_HODGE_ALGO_COST"
  ELSE IF val = "voronoi" THEN "CS_PARAM_HODGE_ALGO_VORONOI"
  ELSE IF val = "wbs" THEN "CS_PARAM_HODGE_ALGO_WBS"
  ELSE NULL

SetHodgeDiffAlgo(p, val) ==
  IF HodgeAlgo(val) # NULL THEN Ok([p EXCEPT !.diffusion_hodge.algo = HodgeAlgo(val)])
  ELSE Fail("InvalidValue", p)

SetHodgeTimeAlgo(p, val) ==
  IF HodgeAlgo(val) # NULL THEN Ok([p EXCEPT !.time_hodge.algo = HodgeAlgo(val)])
  ELSE Fail("InvalidValue", p)

HodgeCoef(val) ==
  IF val = "dga" THEN OneThird
  ELSE IF val = "sushi" THEN OneOverSqrt3
  ELSE IF val = "gcr" THEN Dbl(1, 0)
  ELSE atof(val)

SetHodgeDiffCoef(p, val) == Ok([p EXCEPT !.diffusion_hodge.coef = HodgeCoef(val)])

SetHodgeTimeCoef(p, val) == Ok([p EXCEPT !.time_hodge.coef = HodgeCoef(val)])

\* A plausible slip: changing the family also puts back the solver and the
\* preconditioner that are the defaults of the family.
MutSetSolverFamily(p, val) ==
  IF val = "cs" THEN
    Ok([p EXCEPT !.algo_info.type = "CS_EQUATION_ALGO_CS_ITSOL",
                 !.itsol_info.solver = "CS_PARAM_ITSOL_CG",
                 !.itsol_info.precond = "CS_PARAM_PRECOND_DIAG"])
  ELSE IF val = "petsc" THEN
    Ok([p EXCEPT !.algo_info.type = "CS_EQUATION_ALGO_PETSC_ITSOL",
                 !.itsol_info.solver = "CS_PARAM_ITSOL_BICG",
                 !.itsol_info.precond = "CS_PARAM_PRECOND_ILU0"])
  ELSE Fail("InvalidValue", p)

SetSolverFamily(p, val) ==
  IF val = "cs" THEN Ok([p EXCEPT !.algo_info.type = "CS_EQUATION_ALGO_CS_ITSOL"])
  ELSE IF val = "petsc" THEN Ok([p EXCEPT !.algo_info.type = "CS_EQUATION_ALGO_PETSC_ITSOL"])
  ELSE Fail("InvalidValue", p)

SetItsol(p, val) ==
  IF val = "cg" THEN Ok([p EXCEPT !.itsol_info.solver = "CS_PARAM_ITSOL_CG"])
  ELSE IF val = "bicg" THEN Ok([p EXCEPT !.itsol_info.solver = "CS_PARAM_ITSOL_BICG"])
  ELSE IF val = "gmres" THEN Ok([p EXCEPT !.itsol_info.solver = "CS_PARAM_ITSOL_GMRES"])
  ELSE IF val = "amg" THEN Ok([p EXCEPT !.itsol_info.solver = "CS_PARAM_ITSOL_AMG"])
  ELSE Fail("InvalidValue", p)

SetPrecond(p, val) ==
  IF val = "jacobi" THEN Ok([p EXCEPT !.itsol_info.precond = "CS_PARAM_PRECOND_DIAG"])
  ELSE IF val = "poly1" THEN Ok([p EXCEPT !.itsol_info.precond = "CS_PARAM_PRECOND_POLY1"])
  ELSE IF val = "ssor" THEN Ok([p EXCEPT !.itsol_info.precond = "CS_PARAM_PRECOND_SSOR"])
  ELSE IF val = "ilu0" THEN Ok([p EXCEPT !.itsol_info.precond = "CS_PARAM_PRECOND_ILU0"])
  ELSE IF val = "icc0" THEN Ok([p EXCEPT !.itsol_info.precond = "CS_PARAM_PRECOND_ICC0"])
  ELSE IF val = "amg" THEN Ok([p EXCEPT !.itsol_info.precond = "CS_PARAM_PRECOND_AMG"])
  ELSE IF val = "as" THEN Ok([p EXCEPT !.itsol_info.precond = "CS_PARAM_PRECOND_AS"])
  ELSE Fail("InvalidValue", p)

SetItsolMaxIter(p, val) == Ok([p EXCEPT !.itsol_info.n_max_iter = atoi(val)])

SetItsolEps(p, val) == Ok([p EXCEPT !.itsol_info.eps = atof(val)])

\* No else branch: any other value leaves the flag as it is and the call
\* returns normally.
SetItsolResnorm(p, val) ==
  IF val = "true" THEN Ok([p EXCEPT !.itsol_info.resid_normalized = TRUE])
  ELSE IF val = "false" THEN Ok([p EXCEPT !.itsol_info.resid_normalized = FALSE])
  ELSE Ok(p)

SetVerbosity(p, val) == Ok([p EXCEPT !.verbosity = atoi(val)])

SetSlesVerbosity(p, val) == Ok([p EXCEPT !.sles_verbosity = atoi(val)])

SetBcEnforcement(p, val) ==
  IF val = "strong" THEN Ok([p EXCEPT !.bc.enforcement = "CS_PARAM_BC_ENFORCE_STRONG"])
  ELSE IF val = "penalization" THEN Ok([p EXCEPT !.bc.enforcement = "CS_PARAM_BC_ENFORCE_WEAK_PENA"])
  ELSE IF val = "weak_sym" THEN Ok([p EXCEPT !.bc.enforcement = "CS_PARAM_BC_ENFORCE_WEAK_SYM"])
  ELSE IF val = "weak" THEN Ok([p EXCEPT !.bc.enforcement = "CS_PARAM_BC_ENFORCE_WEAK_NITSCHE"])
  ELSE Fail("InvalidValue", p)

SetBcQuadrature(p, val) ==
  IF val = "subdiv" THEN Ok([p EXCEPT !.bc.use_subdiv = TRUE])
  ELSE IF val = "bary" THEN Ok([p EXCEPT !.bc.quad_type = "CS_QUADRATURE_BARY"])
  ELSE IF val = "higher" THEN Ok([p EXCEPT !.bc.quad_type = "CS_QUADRATURE_HIGHER"])
  ELSE IF val = "highest" THEN Ok([p EXCEPT !.bc.quad_type = "CS_QUADRATURE_HIGHEST"])
  ELSE Fail("InvalidValue", p)

\* process_flag is a mask of bits: a set of flag names here.  No else
\* branch, as for itsol_resnorm.
SetExtraOp(p, val) ==
  IF val = "peclet" THEN Ok([p EXCEPT !.process_flag = @ \cup {"CS_EQUATION_POST_PECLET"}])
  ELSE IF val = "none" THEN Ok([p EXCEPT !.process_flag = @ \cup {"CS_EQUATION_POST_NONE"}])
  ELSE IF val = "upwind_coef" THEN Ok([p EXCEPT !.process_flag = @ \cup {"CS_EQUATION_POST_UPWIND_COEF"}])
  ELSE Ok(p)

SetAdvOpType(p, val) ==
  IF val = "conservative" THEN Ok([p EXCEPT !.advection_info.formulation = "CS_PARAM_ADVECTION_FORM_CONSERV"])
  ELSE IF val = "non_conservative" THEN Ok([p EXCEPT !.advection_info.formulation = "CS_PARAM_ADVECTION_FORM_NONCONS"])
  ELSE Fail("InvalidValue", p)

SetAdvWeightAlgo(p, val) ==
  IF val = "upwind" THEN Ok([p EXCEPT !.advection_info.weight_algo = "CS_PARAM_ADVECTION_WEIGHT_ALGO_UPWIND"])
  ELSE IF val = "samarskii" THEN Ok([p EXCEPT !.advection_info.weight_algo = "CS_PARAM_ADVECTION_WEIGHT_ALGO_SAMARSKII"])
  ELSE IF val = "sg" THEN Ok([p EXCEPT !.advection_info.weight_algo = "CS_PARAM_ADVECTION_WEIGHT_ALGO_SG"])
  ELSE IF val = "d10g5" THEN Ok([p EXCEPT !.advection_info.weight_algo = "CS_PARAM_ADVECTION_WEIGHT_ALGO_D10G5"])
  ELSE IF val = "centered" THEN Ok([p EXCEPT !.advection_info.weight_algo = "CS_PARAM_ADVECTION_WEIGHT_ALGO_CENTERED"])
  ELSE Fail("InvalidValue", p)

SetAdvWeightCrit(p, val) ==
  IF val = "xexc" THEN Ok([p EXCEPT !.advection_info.weight_criterion = "CS_PARAM_ADVECTION_WEIGHT_XEXC"])
  ELSE IF val = "flux" THEN Ok([p EXCEPT !.advection_info.weight_criterion = "CS_PARAM_ADVECTION_WEIGHT_FLUX"])
  ELSE Fail("InvalidValue", p)

SetAdvFluxQuadra(p, val) ==
  IF val = "bary" THEN Ok([p EXCEPT !.advection_info.quad_type = "CS_QUADRATURE_BARY"])
  ELSE IF val = "higher" THEN Ok([p EXCEPT !.advection_info.quad_type = "CS_QUADRATURE_HIGHER"])
  ELSE IF val = "highest" THEN Ok([p EXCEPT !.advection_info.quad_type = "CS_QUADRATURE_HIGHEST"])
  ELSE Fail("InvalidValue", p)

SetTimeScheme(p, val) ==
  IF val = "implicit" THEN
    Ok([p EXCEPT !.time_info.scheme = "CS_TIME_SCHEME_IMPLICIT", !.time_info.theta = Dbl(1, 0)])
  ELSE IF val = "explicit" THEN
    Ok([p EXCEPT !.time_info.scheme = "CS_TIME_SCHEME_EXPLICIT", !.time_info.theta = Dbl(0, 0)])
  ELSE IF val = "crank_nicolson" THEN
    Ok([p EXCEPT !.time_info.scheme = "CS_TIME_SCHEME_CRANKNICO", !.time_info.theta = Dbl(5, 0 - 1)])
  ELSE IF val = "theta_scheme" THEN
    Ok([p EXCEPT !.time_info.scheme = "CS_TIME_SCHEME_THETA"])
  ELSE Fail("InvalidValue", p)

SetTimeTheta(p, val) == Ok([p EXCEPT !.time_info.theta = atof(val)])

\* switch(key) of cs_equation_set_option
SetOptionSwitch(p, key, val) ==
  CASE key = "EQKEY_SPACE_SCHEME"     -> SetSpaceScheme(p, val)
    [] key = "EQKEY_HODGE_DIFF_ALGO"  -> SetHodgeDiffAlgo(p, val)
    [] key = "EQKEY_HODGE_TIME_ALGO"  -> SetHodgeTimeAlgo(p, val)
    [] key = "EQKEY_HODGE_DIFF_COEF"  -> SetHodgeDiffCoef(p, val)
    [] key = "EQKEY_HODGE_TIME_COEF"  -> SetHodgeTimeCoef(p, val)
    [] key = "EQKEY_SOLVER_FAMILY"    -> SetSolverFamily(p, val)
    [] key = "EQKEY_ITSOL"            -> SetItsol(p, val)
    [] key = "EQKEY_PRECOND"          -> SetPrecond(p, val)
    [] key = "EQKEY_ITSOL_MAX_ITER"   -> SetItsolMaxIter(p, val)
    [] key = "EQKEY_ITSOL_EPS"        -> SetItsolEps(p, val)
    [] key = "EQKEY_ITSOL_RESNORM"    -> SetItsolResnorm(p, val)
    [] key = "EQKEY_VERBOSITY"        -> SetVerbosity(p, val)
    [] key = "EQKEY_SLES_VERBOSITY"   -> SetSlesVerbosity(p, val)
    [] key = "EQKEY_BC_ENFORCEMENT"   -> SetBcEnforcement(p, val)
    [] key = "EQKEY_BC_QUADRATURE"    -> SetBcQuadrature(p, val)
    [] key = "EQKEY_EXTRA_OP"         -> SetExtraOp(p, val)
    [] key = "EQKEY_ADV_OP_TYPE"      -> SetAdvOpType(p, val)
    [] key = "EQKEY_ADV_WEIGHT_ALGO"  -> SetAdvWeightAlgo(p, val)
    [] key = "EQKEY_ADV_WEIGHT_CRIT"  -> SetAdvWeightCrit(p, val)
    [] key = "EQKEY_ADV_FLUX_QUADRA"  -> SetAdvFluxQuadra(p, val)
    [] key = "EQKEY_TIME_SCHEME"      -> SetTimeScheme(p, val)
    [] key = "EQKEY_TIME_THETA"       -> SetTimeTheta(p, val)
    [] OTHER                          -> Fail("NotImplemented", p)

\* A plausible slip: the test of CS_EQUATION_LOCKED is left out.
MutIsLocked(p) == FALSE

\* eqp->flag & CS_EQUATION_LOCKED
IsLocked(p) == "CS_EQUATION_LOCKED" \in p.flag

\* The whole of cs_equation_set_option on a non-null equation: the error
\* raised and the parameter set it leaves.
SetOptionResult(p, keyname, val) ==
  LET key == _get_eqkey(keyname)
  IN  IF key = EQKEY_ERROR THEN Fail("InvalidKey", p)
      ELSE IF IsLocked(p) THEN Fail("Locked", p)
      ELSE SetOptionSwitch(p, key, val)


(***************************************************************************)
(* cs_equation_link                                                        *)
(***************************************************************************)
\* eqp->flag is a mask of bits: a set of flag names here.
\* A plausible slip: the flag of the term is assigned, not added.
MutLinkResult(p, keyword, pointer) ==
  IF keyword = "diffusion" THEN
    Ok([p EXCEPT !.flag = {"CS_EQUATION_DIFFUSION"}, !.diffusion_property = pointer])
  ELSE IF keyword = "time" THEN
    Ok([p EXCEPT !.flag = {"CS_EQUATION_UNSTEADY"}, !.time_property = pointer])
  ELSE IF keyword = "advection" THEN
    Ok([p EXCEPT !.flag = {"CS_EQUATION_CONVECTION"}, !.advection_field = pointer])
  ELSE Fail("InvalidTerm", p)

LinkResult(p, keyword, pointer) ==
  IF keyword = "diffusion" THEN
    Ok([p EXCEPT !.flag = @ \cup {"CS_EQUATION_DIFFUSION"}, !.diffusion_property = pointer])
  ELSE IF keyword = "time" THEN
    Ok([p EXCEPT !.flag = @ \cup {"CS_EQUATION_UNSTEADY"}, !.time_property = pointer])
  ELSE IF keyword = "advection" THEN
    Ok([p EXCEPT !.flag = @ \cup {"CS_EQUATION_CONVECTION"}, !.advection_field = pointer])
  ELSE Fail("InvalidTerm", p)

(***************************************************************************)
(* Mesh locations (cs_mesh_location_get_id_by_name): the predefined        *)
(* locations and one location defined by the user; -1 for any other name.  *)
(***************************************************************************)
cs_mesh_location_get_id_by_name(ml_name) ==
  CASE ml_name = "cells" -> 1
    [] ml_name = "interior_faces" -> 2
    [] ml_name = "boundary_faces" -> 3
    [] ml_name = "vertices" -> 4
    [] ml_name = "wall" -> 5
    [] OTHER -> 0 - 1

\* _check_ml_name raises an error when the id is -1
_check_ml_name(ml_name) == cs_mesh_location_get_id_by_name(ml_name) # 0 - 1

\* The content of a record that BFT_REALLOC has added and nothing has
\* filled yet.
Unfilled == [unfilled |-> TRUE]

(***************************************************************************)
(* cs_equation_add_bc                                                      *)
(***************************************************************************)
BcDefType(def_key) ==
  IF def_key = "value" THEN "CS_PARAM_DEF_BY_VALUE"
  ELSE IF def_key = "array" THEN "CS_PARAM_DEF_BY_ARRAY"
  ELSE IF def_key = "analytic" THEN "CS_PARAM_DEF_BY_ANALYTIC_FUNCTION"
  ELSE IF def_key = "user" THEN "CS_PARAM_DEF_BY_USER_FUNCTION"
  ELSE NULL

BcType(bc_key) ==
  IF bc_key = "dirichlet" THEN "CS_PARAM_BC_DIRICHLET"
  ELSE IF bc_key = "neumann" THEN "CS_PARAM_BC_NEUMANN"
  ELSE IF bc_key = "robin" THEN "CS_PARAM_BC_ROBIN"
  ELSE NULL

\* A plausible slip: the downgrade is made whatever the value.
MutHomogeneousBcType(bc_type, def_type, var_type, val) ==
  IF def_type = "CS_PARAM_DEF_BY_VALUE" /\ var_type = "CS_PARAM_VAR_SCAL" THEN
    IF bc_type = "CS_PARAM_BC_DIRICHLET" THEN "CS_PARAM_BC_HMG_DIRICHLET"
    ELSE IF bc_type = "CS_PARAM_BC_NEUMANN" THEN "CS_PARAM_BC_HMG_NEUMANN"
    ELSE bc_type
  ELSE bc_type

\* "Check if this is a homogeneous boundary condition"
HomogeneousBcType(bc_type, def_type, var_type, val) ==
  IF def_type = "CS_PARAM_DEF_BY_VALUE" /\ var_type = "CS_PARAM_VAR_SCAL"
     /\ fabs_lt_DBL_MIN(atof(val)) THEN
    IF bc_type = "CS_PARAM_BC_DIRICHLET" THEN "CS_PARAM_BC_HMG_DIRICHLET"
    ELSE IF bc_type = "CS_PARAM_BC_NEUMANN" THEN "CS_PARAM_BC_HMG_NEUMANN"
    ELSE bc_type
  ELSE bc_type

AddBcResult(p, ml_name, bc_key, def_key, val) ==
  LET p1 == [p EXCEPT !.bc.n_defs = @ + 1, !.bc.defs = Append(@, Unfilled)]
      def_id == p.bc.n_defs + 1
      def_type == BcDefType(def_key)
      bc_type == BcType(bc_key)
  IN  IF ~ _check_ml_name(ml_name) THEN Fail("InvalidMeshLocation", p1)
      ELSE IF def_type = NULL THEN Fail("InvalidDefinitionKind", p1)
      ELSE IF bc_type = NULL THEN Fail("InvalidBCKind", p1)
      ELSE Ok([p1 EXCEPT !.bc.defs[def_id] =
                 [ loc_id   |-> cs_mesh_location_get_id_by_name(ml_name),
                   bc_type  |-> HomogeneousBcType(bc_type, def_type, p.var_type, val),
                   var_type |-> p.var_type,
                   def_type |-> def_type,
                   val      |-> val ]])

(***************************************************************************)
(* cs_equation_set_ic                                                      *)
(***************************************************************************)
SetIcResult(p, ml_name, def_key, val) ==
  LET def_type == IF def_key = "value" THEN "CS_PARAM_DEF_BY_VALUE"
                  ELSE IF def_key = "analytic" THEN "CS_PARAM_DEF_BY_ANALYTIC_FUNCTION"
                  ELSE NULL
      ic == [ ml_name |-> IF ml_name = NULL THEN "" ELSE ml_name,
              def_type |-> def_type, val |-> val ]
  IN  IF def_type = NULL THEN Fail("InvalidDefinitionKind", p)
      ELSE Ok([p EXCEPT !.time_info.ic_definitions = Append(@, ic),
                        !.time_info.n_ic_definitions = @ + 1])

(***************************************************************************)
(* cs_equation_add_reaction, cs_equation_set_reaction_option               *)
(***************************************************************************)
DigitChar(d) ==
  CASE d = 0 -> "0" [] d = 1 -> "1" [] d = 2 -> "2" [] d = 3 -> "3" [] d = 4 -> "4"
    [] d = 5 -> "5" [] d = 6 -> "6" [] d = 7 -> "7" [] d = 8 -> "8" [] d = 9 -> "9"

\* sprintf(_r_name, "reaction_%02d", r_id), r_id < 100
DefaultReactionName(r_id) ==
  "reaction_" \o DigitChar(r_id \div 10) \o DigitChar(r_id % 10)

\* cs_param_reaction_add: the new reaction term, with its default options
cs_param_reaction_add(name, h_type, h_algo, r_type) ==
  [ name |-> name, type |-> r_type, do_lumping |-> FALSE,
    hodge |-> [ inv_pty |-> FALSE, type |-> h_type, algo |-> h_algo,
                coef |-> Dbl(1, 0) ] ]

AddReactionResult(p, r_name, type_name, property) ==
  LET r_id == p.n_reaction_terms   \* index from 0, as in the code
      p1 == [p EXCEPT !.n_reaction_terms = @ + 1,
                      !.reaction_terms = Append(@, Unfilled),
                      !.reaction_properties = Append(@, property)]
      name == IF r_name = NULL THEN DefaultReactionName(r_id) ELSE r_name
  IN  IF type_name # "linear" THEN Fail("InvalidReactionType", p1)
      ELSE IF p.space_scheme = "CS_SPACE_SCHEME_CDOFB" THEN Fail("NotImplemented", p1)
      ELSE IF p.space_scheme # "CS_SPACE_SCHEME_CDOVB" THEN Fail("InvalidScheme", p1)
      ELSE Ok([p1 EXCEPT !.reaction_terms[r_id + 1] =
                    cs_param_reaction_add(name, "CS_PARAM_HODGE_TYPE_VPCD",
                                          "CS_PARAM_HODGE_ALGO_WBS",
                                          "CS_PARAM_REACTION_TYPE_LINEAR"),
                  !.flag = @ \cup {"CS_EQUATION_REACTION"}])

\* Index (from 1) of the first reaction term called r_name, 0 when none
RECURSIVE FindReaction(_, _, _)
FindReaction(terms, r_name, i) ==
  IF i > Len(terms) THEN 0
  ELSE IF terms[i].name = r_name THEN i
  ELSE FindReaction(terms, r_name, i + 1)

_get_reakey(keyname) ==
  IF keyname = "lumping" THEN "REAKEY_LUMPING"
  ELSE IF keyname = "hodge_algo" THEN "REAKEY_HODGE_ALGO"
  ELSE IF keyname = "hodge_coef" THEN "REAKEY_HODGE_COEF"
  ELSE IF keyname = "inv_pty" THEN "REAKEY_INV_PTY"
  ELSE "REAKEY_ERROR"

\* One reaction term with the option set
SetReaKey(term, key, keyval) ==
  CASE key = "REAKEY_HODGE_ALGO" -> [term EXCEPT !.hodge.algo = HodgeAlgo(keyval)]
    [] key = "REAKEY_HODGE_COEF" -> [term EXCEPT !.hodge.coef = HodgeCoef(keyval)]
    [] key = "REAKEY_INV_PTY"    -> [term EXCEPT !.hodge.inv_pty = (keyval = "true")]
    [] key = "REAKEY_LUMPING"    -> [term EXCEPT !.do_lumping = (keyval = "true")]

SetReactionOptionResult(p, r_name, keyname, keyval) ==
  LET r_id == IF r_name = NULL THEN 0 ELSE FindReaction(p.reaction_terms, r_name, 1)
      key == _get_reakey(keyname)
  IN  IF r_name # NULL /\ r_id = 0 THEN Fail("NotFound", p)
      ELSE IF key = "REAKEY_ERROR" THEN Fail("InvalidKey", p)
      ELSE IF key = "REAKEY_HODGE_ALGO" /\ HodgeAlgo(keyval) = NULL THEN Fail("InvalidValue", p)
      ELSE Ok([p EXCEPT !.reaction_terms =
                 [i \in DOMAIN @ |-> IF r_id = 0 \/ r_id = i
                                       THEN SetReaKey(@[i], key, keyval) ELSE @[i]]])

\* A plausible slip: a null pointer is returned when no term has the
\* name, as the header of the function says.
MutGetReactionPropertyResult(e, p, r_name) ==
  LET r_id == FindReaction(p.reaction_terms, r_name, 1)
  IN  IF e = NoObject \/ r_name = NULL \/ r_id = 0 THEN [err |-> "none", ret |-> NULL]
      ELSE [err |-> "none", ret |-> p.reaction_properties[r_id]]

\* cs_equation_get_reaction_property: the error raised and the handle
\* returned
GetReactionPropertyResult(e, p, r_name) ==
  LET r_id == FindReaction(p.reaction_terms, r_name, 1)
  IN  IF e = NoObject THEN [err |-> "none", ret |-> NULL]
      ELSE IF r_name = NULL THEN [err |-> "none", ret |-> NULL]
      ELSE IF r_id = 0 THEN [err |-> "NotFound", ret |-> NULL]
      ELSE [err |-> "none", ret |-> p.reaction_properties[r_id]]

(***************************************************************************)
(* Source terms                                                            *)
(***************************************************************************)
\* sprintf(_st_name, "sourceterm_%2d", st_id): the number is padded with a
\* space, not with a zero
DefaultSourceTermName(st_id) ==
  "sourceterm_" \o (IF st_id < 10 THEN " " ELSE DigitChar(st_id \div 10))
                \o DigitChar(st_id % 10)

\* cs_source_term_create followed by one of cs_source_term_def_by_*
cs_source_term_create(name, ml_id, st_type, var_type, def_type, def) ==
  [ name |-> name, ml_id |-> ml_id, type |-> st_type, var_type |-> var_type,
    def_type |-> def_type, def |-> def, options |-> << >> ]

AddGravitySourceTermResult(p, ml_id, array_values) ==
  Ok([p EXCEPT !.n_source_terms = @ + 1,
               !.source_terms = Append(@,
                  cs_source_term_create("gravity_source", ml_id, "CS_SOURCE_TERM_GRAVITY",
                                        p.var_type, "CS_PARAM_DEF_BY_ARRAY", array_values))])

\* cs_equation_add_source_term_by_val and _by_analytic differ by the kind
\* of definition only.
AddSourceTermResult(p, st_name, ml_name, def_type, def) ==
  LET st_id == p.n_source_terms
      p1 == [p EXCEPT !.n_source_terms = @ + 1, !.source_terms = Append(@, Unfilled)]
      name == IF st_name = NULL THEN DefaultSourceTermName(st_id) ELSE st_name
  IN  IF ~ _check_ml_name(ml_name) THEN Fail("InvalidMeshLocation", p1)
      ELSE Ok([p1 EXCEPT !.source_terms[st_id + 1] =
                 cs_source_term_create(name, cs_mesh_location_get_id_by_name(ml_name),
                                       "CS_SOURCE_TERM_USER", p.var_type, def_type, def)])

\* Index (from 1) of the first source term called st_name, 0 when none
RECURSIVE FindSourceTerm(_, _, _)
FindSourceTerm(terms, st_name, i) ==
  IF i > Len(terms) THEN 0
  ELSE IF terms[i].name = st_name THEN i
  ELSE FindSourceTerm(terms, st_name, i + 1)

\* cs_source_term_set_option: the option is recorded on the source term
cs_source_term_set_option(st, keyname, keyval) ==
  [st EXCEPT !.options = Append(@, <<keyname, keyval>>)]

SetSourceTermOptionResult(p, st_name, keyname, keyval) ==
  LET st_id == IF st_name = NULL THEN 0 ELSE FindSourceTerm(p.source_terms, st_name, 1)
  IN  IF st_name # NULL /\ st_id = 0 THEN Fail("NotFound", p)
      ELSE Ok([p EXCEPT !.source_terms =
                 [i \in DOMAIN @ |-> IF st_id = 0 \/ st_id = i
                                       THEN cs_source_term_set_option(@[i], keyname, keyval)
                                       ELSE @[i]]])

(***************************************************************************)
(* The registry of linear solvers (cs_sles), keyed by the field id.  An    *)
(* entry holds its context, its verbosity, the number of calls of          *)
(* cs_sles_solve on it and whether it holds set-up data.                   *)
(***************************************************************************)
EmptyRegistry == [i \in {} |-> NULL]

\* cs_sles_define: the context is stored under f_id, in place of the one
\* that was there
cs_sles_define(reg, f_id, ctx) ==
  [i \in DOMAIN reg \cup {f_id} |-> IF i = f_id THEN ctx ELSE reg[i]]

\* cs_sles_find_or_add: an entry without context is added when none exists
cs_sles_find_or_add(reg, f_id) ==
  IF f_id \in DOMAIN reg THEN reg
  ELSE cs_sles_define(reg, f_id, [kind |-> NULL, verbosity |-> 0,
                                  n_calls |-> 0, setup |-> FALSE])

cs_sles_it_define(reg, f_id, solver_type, poly_degree, n_max_iter) ==
  cs_sles_define(reg, f_id, [ kind |-> "cs_sles_it", type |-> solver_type,
                              poly_degree |-> poly_degree,
                              n_max_iter |-> n_max_iter, verbosity |-> 0,
                              n_calls |-> 0, setup |-> FALSE ])

\* cs_multigrid_define followed by cs_multigrid_set_solver_options
cs_multigrid_define(reg, f_id, n_max_cycles) ==
  cs_sles_define(reg, f_id, [ kind |-> "cs_multigrid",
                              descent_smoother |-> "CS_SLES_JACOBI",
                              ascent_smoother |-> "CS_SLES_JACOBI",
                              coarse_solver |-> "CS_SLES_PCG",
                              n_max_cycles |-> n_max_cycles,
                              n_max_iter_descent |-> 5, n_max_iter_ascent |-> 5,
                              n_max_iter_coarse |-> 1000, verbosity |-> 0,
                              n_calls |-> 0, setup |-> FALSE ])

cs_sles_petsc_define(reg, f_id, mat_type, setup_hook) ==
  cs_sles_define(reg, f_id, [ kind |-> "cs_sles_petsc", mat_type |-> mat_type,
                              setup_hook |-> setup_hook, verbosity |-> 0,
                              n_calls |-> 0, setup |-> FALSE ])

\* cs_sles_solve: the solver is set up if it was not, and is run once
cs_sles_solve(reg, f_id) ==
  [reg EXCEPT ![f_id].n_calls = @ + 1, ![f_id].setup = TRUE]

\* cs_sles_free: the set-up data are released, the entry stays
cs_sles_free(reg, f_id) == [reg EXCEPT ![f_id].setup = FALSE]

SlesOk(reg) == [err |-> "none", sles |-> reg]
SlesFail(e, reg) == [err |-> e, sles |-> reg]

\* A plausible slip: a preconditioner that the in-house solvers do not have
\* is replaced by the Jacobi one instead of being refused.
MutSlesInitCs(p, f_id, reg) ==
  LET poly_degree == IF p.itsol_info.precond = "CS_PARAM_PRECOND_POLY1" THEN 1 ELSE 0
      solver == p.itsol_info.solver
      n_max_iter == p.itsol_info.n_max_iter
  IN  CASE solver = "CS_PARAM_ITSOL_CG" ->
             SlesOk(cs_sles_it_define(reg, f_id, "CS_SLES_PCG", poly_degree, n_max_iter))
        [] solver = "CS_PARAM_ITSOL_BICG" ->
             SlesOk(cs_sles_it_define(reg, f_id, "CS_SLES_BICGSTAB", poly_degree, n_max_iter))
        [] solver = "CS_PARAM_ITSOL_GMRES" ->
             SlesOk(cs_sles_it_define(reg, f_id, "CS_SLES_GMRES", poly_degree, n_max_iter))
        [] OTHER ->
             SlesFail("UnsupportedSolverCombination",
                      cs_multigrid_define(reg, f_id, n_max_iter))

\* The in-house branch of _sles_initialization
SlesInitCs(p, f_id, reg) ==
  LET poly_degree == IF p.itsol_info.precond = "CS_PARAM_PRECOND_POLY1" THEN 1 ELSE 0
      solver == p.itsol_info.solver
      n_max_iter == p.itsol_info.n_max_iter
      defined ==
        CASE solver = "CS_PARAM_ITSOL_CG" ->
               SlesOk(cs_sles_it_define(reg, f_id, "CS_SLES_PCG", poly_degree, n_max_iter))
          [] solver = "CS_PARAM_ITSOL_BICG" ->
               SlesOk(cs_sles_it_define(reg, f_id, "CS_SLES_BICGSTAB", poly_degree, n_max_iter))
          [] solver = "CS_PARAM_ITSOL_GMRES" ->
               SlesOk(cs_sles_it_define(reg, f_id, "CS_SLES_GMRES", poly_degree, n_max_iter))
          [] solver = "CS_PARAM_ITSOL_AMG" ->
               \* no break after the case: the default case follows
               SlesFail("UnsupportedSolverCombination",
                        cs_multigrid_define(reg, f_id, n_max_iter))
          [] OTHER -> SlesFail("UnsupportedSolverCombination", reg)
  IN  IF p.itsol_info.precond \notin {"CS_PARAM_PRECOND_POLY1", "CS_PARAM_PRECOND_DIAG"}
        THEN SlesFail("UnsupportedSolverCombination", reg)
      ELSE IF defined.err # "none" THEN defined
      ELSE IF p.sles_verbosity > 1
        THEN SlesOk([cs_sles_find_or_add(defined.sles, f_id)
                       EXCEPT ![f_id].verbosity = p.sles_verbosity])
      ELSE defined

\* A plausible slip: the inner switches have no default case, and a
\* preconditioner without a hook of its own gets the block Jacobi one.
MutSlesInitPetsc(p, f_id, reg) ==
  IF p.itsol_info.solver \in {"CS_PARAM_ITSOL_CG", "CS_PARAM_ITSOL_GMRES", "CS_PARAM_ITSOL_BICG"}
    THEN SlesOk(cs_sles_petsc_define(reg, f_id, "MATMPIAIJ", "_gmres_bjacobi_setup_hook"))
    ELSE SlesFail("UnsupportedSolverCombination", reg)

\* The PETSc branch of _sles_initialization, when HAVE_PETSC is defined
SlesInitPetsc(p, f_id, reg) ==
  LET solver == p.itsol_info.solver
      precond == p.itsol_info.precond
  IN  CASE solver = "CS_PARAM_ITSOL_CG" ->
           (CASE precond = "CS_PARAM_PRECOND_DIAG" ->
                   SlesOk(cs_sles_petsc_define(reg, f_id, "MATMPIAIJ", "_cg_diag_setup_hook"))
              [] precond = "CS_PARAM_PRECOND_SSOR" ->
                   SlesOk(cs_sles_petsc_define(reg, f_id, "MATSEQAIJ", "_cg_ssor_setup_hook"))
              [] precond = "CS_PARAM_PRECOND_ICC0" ->
                   SlesOk(cs_sles_petsc_define(reg, f_id, "MATSEQAIJ", "_cg_icc_setup_hook"))
              [] precond = "CS_PARAM_PRECOND_AMG" ->
                   SlesOk(cs_sles_petsc_define(reg, f_id, "MATMPIAIJ", "_cg_bamg_setup_hook"))
              [] precond = "CS_PARAM_PRECOND_AS" ->
                   SlesOk(cs_sles_petsc_define(reg, f_id, "MATMPIAIJ", "_cg_as_setup_hook"))
              [] OTHER -> SlesFail("UnsupportedSolverCombination", reg))
        [] solver = "CS_PARAM_ITSOL_GMRES" ->
           (CASE precond = "CS_PARAM_PRECOND_ILU0" ->
                   SlesOk(cs_sles_petsc_define(reg, f_id, "MATSEQAIJ", "_gmres_ilu_setup_hook"))
              [] precond = "CS_PARAM_PRECOND_DIAG" ->
                   SlesOk(cs_sles_petsc_define(reg, f_id, "MATMPIAIJ", "_gmres_bjacobi_setup_hook"))
              [] OTHER -> SlesFail("UnsupportedSolverCombination", reg))
        [] solver = "CS_PARAM_ITSOL_BICG" ->
           (CASE precond = "CS_PARAM_PRECOND_ILU0" ->
                   SlesOk(cs_sles_petsc_define(reg, f_id, "MATSEQAIJ", "_bicg_ilu_setup_hook"))
              [] precond = "CS_PARAM_PRECOND_DIAG" ->
                   SlesOk(cs_sles_petsc_define(reg, f_id, "MATMPIAIJ", "_bicg_bjacobi_setup_hook"))
              [] OTHER -> SlesFail("UnsupportedSolverCombination", reg))
        [] OTHER -> SlesFail("UnsupportedSolverCombination", reg)

\* A plausible slip: without PETSc, the in-house solvers are used instead.
Mut_sles_initialization_fallback(p, f_id, reg, petsc) ==
  CASE p.algo_info.type = "CS_EQUATION_ALGO_CS_ITSOL" -> SlesInitCs(p, f_id, reg)
    [] p.algo_info.type = "CS_EQUATION_ALGO_PETSC_ITSOL" ->
         IF petsc THEN SlesInitPetsc(p, f_id, reg) ELSE SlesInitCs(p, f_id, reg)
    [] OTHER -> SlesFail("NotImplemented", reg)

\* A plausible slip: a solver is added to the registry at each setup, the
\* one of an earlier setup staying where it was.
Mut_sles_initialization_added(p, f_id, reg, petsc) ==
  LET id == IF f_id \in DOMAIN reg THEN f_id + 1 ELSE f_id
  IN  CASE p.algo_info.type = "CS_EQUATION_ALGO_CS_ITSOL" -> SlesInitCs(p, id, reg)
        [] p.algo_info.type = "CS_EQUATION_ALGO_PETSC_ITSOL" ->
             IF petsc THEN SlesInitPetsc(p, id, reg)
             ELSE SlesFail("BackendUnavailable", reg)
        [] OTHER -> SlesFail("NotImplemented", reg)

_sles_initialization(p, f_id, reg, petsc) ==
  CASE p.algo_info.type = "CS_EQUATION_ALGO_CS_ITSOL" -> SlesInitCs(p, f_id, reg)
    [] p.algo_info.type = "CS_EQUATION_ALGO_PETSC_ITSOL" ->
         IF petsc THEN SlesInitPetsc(p, f_id, reg)
         ELSE SlesFail("BackendUnavailable", reg)
    [] OTHER -> SlesFail("NotImplemented", reg)

(***************************************************************************)
(* The equation structure                                                  *)
(***************************************************************************)
\* The members of cs_equation_t other than param, as cs_equation_create
\* leaves them
NewEquation ==
  [ field_id |-> 0 - 1,
    do_build |-> TRUE,
    main_ts_id |-> 0 - 1, pre_ts_id |-> 0 - 1,
    solve_ts_id |-> 0 - 1, extra_op_ts_id |-> 0 - 1,
    ms |-> NoObject, matrix |-> NoObject, rhs |-> NoObject,
    builder |-> NoObject,
    init_builder |-> NULL, compute_source |-> NULL, build_system |-> NULL,
    update_field |-> NULL, postprocess |-> NULL, get_f_values |-> NULL,
    get_tmpbuf |-> NULL, free_builder |-> NULL ]

\* cs_equation_last_setup: the timer statistics (ids given by
\* cs_timer_stats_create, in the order of their creation)
SetTimers(e, verbosity) ==
  IF verbosity > 1 THEN [e EXCEPT !.main_ts_id = 0, !.pre_ts_id = 1,
                                  !.solve_ts_id = 2, !.extra_op_ts_id = 3]
  ELSE IF verbosity > 0 THEN [e EXCEPT !.main_ts_id = 0]
  ELSE e

\* cs_equation_last_setup: "Set function pointers"
SetFunctionPointers(e, space_scheme) ==
  IF space_scheme = "CS_SPACE_SCHEME_CDOVB" THEN
    [e EXCEPT !.init_builder = "cs_cdovb_scaleq_init",
              !.free_builder = "cs_cdovb_scaleq_free",
              !.build_system = "cs_cdovb_scaleq_build_system",
              !.compute_source = "cs_cdovb_scaleq_compute_source",
              !.update_field = "cs_cdovb_scaleq_update_field",
              !.postprocess = "cs_cdovb_scaleq_extra_op",
              !.get_tmpbuf = "cs_cdovb_scaleq_get_tmpbuf",
              !.get_f_values = NULL]
  ELSE [e EXCEPT !.init_builder = "cs_cdofb_scaleq_init",
                 !.free_builder = "cs_cdofb_scaleq_free",
                 !.build_system = "cs_cdofb_scaleq_build_system",
                 !.compute_source = "cs_cdofb_scaleq_compute_source",
                 !.update_field = "cs_cdofb_scaleq_update_field",
                 !.postprocess = "cs_cdofb_scaleq_extra_op",
                 !.get_tmpbuf = "cs_cdofb_scaleq_get_tmpbuf",
                 !.get_f_values = "cs_cdofb_scaleq_get_face_values"]

\* cs_equation_last_setup: "Advanced setup according to the type of
\* discretization"
AdvancedSetup(p) ==
  IF /\ p.space_scheme = "CS_SPACE_SCHEME_CDOVB"
     /\ "CS_EQUATION_REACTION" \in p.flag
     /\ \E r_id \in 1..Len(p.reaction_terms) :
          p.reaction_terms[r_id].hodge.algo = "CS_PARAM_HODGE_ALGO_WBS"
    THEN [p EXCEPT !.flag = @ \cup {"CS_EQUATION_HCONF_ST"}]
    ELSE p

\* cs_equation_last_setup on a non-null equation: the error raised, and
\* the equation, its parameters and the registry at that point
LastSetupResult(e, p, reg, petsc) ==
  LET e1 == SetFunctionPointers(SetTimers(e, p.verbosity), p.space_scheme)
      p1 == AdvancedSetup(p)
      r  == _sles_initialization(p1, e1.field_id, reg, petsc)
  IN  IF p.space_scheme \notin {"CS_SPACE_SCHEME_CDOVB", "CS_SPACE_SCHEME_CDOFB"}
        THEN [err |-> "InvalidScheme", eq |-> SetTimers(e, p.verbosity), eqp |-> p, sles |-> reg]
      ELSE IF r.err # "none"
        THEN [err |-> r.err, eq |-> e1, eqp |-> p1, sles |-> r.sles]
      ELSE [err |-> "none", eq |-> e1,
            eqp |-> [p1 EXCEPT !.flag = @ \cup {"CS_EQUATION_LOCKED"}],
            sles |-> r.sles]


(***************************************************************************)
(* Field, builder, linear system                                           *)
(***************************************************************************)
\* The values of a field are kept as one token: the allocation-time zeros,
\* the values written from n initial-condition definitions, or the n-th
\* solution vector.
ZeroValues == [kind |-> "zero", n |-> 0]

NoField == [defined |-> FALSE, has_previous |-> FALSE,
            val |-> ZeroValues, val_pre |-> ZeroValues]

\* cs_field_create and cs_field_allocate_values in cs_equation_create_field
cs_field_create(has_previous) ==
  [defined |-> TRUE, has_previous |-> has_previous,
   val |-> ZeroValues, val_pre |-> ZeroValues]

\* cs_field_current_to_previous: nothing to do for a field without
\* previous values
cs_field_current_to_previous(f) ==
  IF f.has_previous THEN [f EXCEPT !.val_pre = f.val] ELSE f

\* eq->init_builder followed by eq->compute_source in cs_equation_init_system
init_builder(p) ==
  [ scheme |-> p.space_scheme, source_computed |-> TRUE,
    face_values |-> IF p.space_scheme = "CS_SPACE_SCHEME_CDOFB" THEN ZeroValues ELSE NoObject ]

\* A plausible slip: the initial conditions are written whenever there is a
\* definition of them, for a steady equation too.
MutInitSystemResult(e, p, f) ==
  LET b == init_builder(p)
      ic == [kind |-> "ic", n |-> p.time_info.n_ic_definitions]
  IN  IF e.init_builder = NULL
        THEN [err |-> "NullFunctionPointer", builder |-> e.builder, fld |-> f]
      ELSE IF p.time_info.n_ic_definitions = 0
        THEN [err |-> "none", builder |-> b, fld |-> f]
      ELSE IF ~ f.defined
        THEN [err |-> "FieldNotFound", builder |-> b, fld |-> f]
      ELSE IF p.space_scheme = "CS_SPACE_SCHEME_CDOVB"
        THEN [err |-> "none", builder |-> b, fld |-> [f EXCEPT !.val = ic]]
      ELSE [err |-> "none", builder |-> [b EXCEPT !.face_values = ic],
            fld |-> [f EXCEPT !.val = ic]]

\* cs_equation_init_system: the error raised, the builder and the field
InitSystemResult(e, p, f) ==
  LET b == init_builder(p)
      ic == [kind |-> "ic", n |-> p.time_info.n_ic_definitions]
  IN  IF e.init_builder = NULL
        THEN [err |-> "NullFunctionPointer", builder |-> e.builder, fld |-> f]
      ELSE IF "CS_EQUATION_UNSTEADY" \notin p.flag
        THEN [err |-> "none", builder |-> b, fld |-> f]
      ELSE IF p.time_info.n_ic_definitions = 0
        THEN [err |-> "none", builder |-> b, fld |-> f]
      \* _initialize_field_from_ic: cs_field_by_id stops on an unknown id
      ELSE IF ~ f.defined
        THEN [err |-> "FieldNotFound", builder |-> b, fld |-> f]
      ELSE IF p.space_scheme = "CS_SPACE_SCHEME_CDOVB"
        THEN [err |-> "none", builder |-> b, fld |-> [f EXCEPT !.val = ic]]
      ELSE [err |-> "none", builder |-> [b EXCEPT !.face_values = ic],
            fld |-> [f EXCEPT !.val = ic]]

\* A plausible slip: the creation of the matrix and of its structure is
\* left in the block that is run, at the first build, when the verbosity
\* is above 1.
MutBuildSystemResult(e, p, f, n) ==
  LET ms == [created_by |-> n, transfer |-> (p.space_scheme # "CS_SPACE_SCHEME_CDOVB")]
  IN  IF ~ f.defined THEN [err |-> "FieldNotFound", eq |-> e]
      ELSE IF e.build_system = NULL \/ e.builder = NoObject
        THEN [err |-> "NullFunctionPointer", eq |-> e]
      ELSE IF e.ms = NoObject /\ p.verbosity > 1
        THEN [err |-> "none",
              eq |-> [e EXCEPT !.rhs = [pass |-> n], !.ms = ms,
                               !.matrix = [created_by |-> n, coefs |-> n],
                               !.do_build = FALSE]]
      ELSE [err |-> "none", eq |-> [e EXCEPT !.rhs = [pass |-> n], !.do_build = FALSE]]

\* A plausible slip: every build creates a matrix and a matrix structure
\* anew.
MutBuildSystemAnew(e, p, f, n) ==
  IF ~ f.defined THEN [err |-> "FieldNotFound", eq |-> e]
  ELSE IF e.build_system = NULL \/ e.builder = NoObject
    THEN [err |-> "NullFunctionPointer", eq |-> e]
  ELSE [err |-> "none",
        eq |-> [e EXCEPT !.rhs = [pass |-> n],
                         !.ms = [created_by |-> n,
                                 transfer |-> (p.space_scheme # "CS_SPACE_SCHEME_CDOVB")],
                         !.matrix = [created_by |-> n, coefs |-> n],
                         !.do_build = FALSE]]

\* cs_equation_build_system: the error raised and the equation at that
\* point; n numbers the assembly pass
BuildSystemResult(e, p, f, n) ==
  LET e1 == [e EXCEPT !.rhs = [pass |-> n]]
      ms == IF e.ms = NoObject
              THEN [created_by |-> n, transfer |-> (p.space_scheme # "CS_SPACE_SCHEME_CDOVB")]
              ELSE e.ms
      matrix == IF e.matrix = NoObject THEN [created_by |-> n, coefs |-> 0] ELSE e.matrix
  IN  IF ~ f.defined THEN [err |-> "FieldNotFound", eq |-> e]
      ELSE IF e.build_system = NULL \/ e.builder = NoObject
        THEN [err |-> "NullFunctionPointer", eq |-> e]
      ELSE [err |-> "none",
            eq |-> [e1 EXCEPT !.ms = ms,
                              !.matrix = [matrix EXCEPT !.coefs = n],
                              !.do_build = FALSE]]

\* Codes that cs_sles_solve may return
ConvergenceCodes ==
  {"CS_SLES_CONVERGED", "CS_SLES_DIVERGED", "CS_SLES_BREAKDOWN", "CS_SLES_MAX_ITERATION"}

\* A plausible slip: the system is marked stale only when the solver has
\* converged.
MutSolveDoBuild(do_build, flag, code) ==
  IF "CS_EQUATION_UNSTEADY" \in flag /\ code = "CS_SLES_CONVERGED" THEN TRUE ELSE do_build

\* A plausible slip: every solve marks the system stale.
MutSolveDoBuildAlways(do_build, flag, code) == TRUE

\* The end of cs_equation_solve: eq->do_build after the solve
SolveDoBuild(do_build, flag, code) ==
  IF "CS_EQUATION_UNSTEADY" \in flag THEN TRUE ELSE do_build

\* A plausible slip: a solve that has not converged is run a second time,
\* and its result is not stored in the field.
MutSolveResult(e, p, f, reg, code, x) ==
  LET reg1 == cs_sles_find_or_add(reg, e.field_id)
      reg2 == cs_sles_solve(reg1, e.field_id)
      reg3 == IF code = "CS_SLES_CONVERGED" THEN reg2 ELSE cs_sles_solve(reg2, e.field_id)
      f1 == cs_field_current_to_previous(f)
      f2 == IF code = "CS_SLES_CONVERGED"
              THEN [f1 EXCEPT !.val = [kind |-> "sol", n |-> x]] ELSE f
      b1 == IF e.builder.scheme = "CS_SPACE_SCHEME_CDOFB" /\ code = "CS_SLES_CONVERGED"
              THEN [e.builder EXCEPT !.face_values = [kind |-> "sol", n |-> x]]
              ELSE e.builder
  IN  IF e.get_tmpbuf = NULL
        THEN [err |-> "NullFunctionPointer", eq |-> e, fld |-> f, sles |-> reg]
      ELSE IF ~ f.defined
        THEN [err |-> "FieldNotFound", eq |-> e, fld |-> f, sles |-> reg1]
      ELSE IF e.matrix = NoObject \/ e.builder = NoObject
        THEN [err |-> "NullPointer", eq |-> e, fld |-> f, sles |-> reg1]
      ELSE [err |-> "none",
            eq |-> [e EXCEPT !.builder = b1,
                             !.do_build = SolveDoBuild(e.do_build, p.flag, code)],
            fld |-> f2, sles |-> cs_sles_free(reg3, e.field_id)]

\* A plausible slip: a solve is refused while the system is marked stale.
MutSolveRefusesStale(e, p, f, reg, code, x) ==
  LET reg1 == cs_sles_find_or_add(reg, e.field_id)
      reg2 == cs_sles_solve(reg1, e.field_id)
      f1 == cs_field_current_to_previous(f)
      f2 == [f1 EXCEPT !.val = [kind |-> "sol", n |-> x]]
      b1 == IF e.builder.scheme = "CS_SPACE_SCHEME_CDOFB"
              THEN [e.builder EXCEPT !.face_values = [kind |-> "sol", n |-> x]]
              ELSE e.builder
  IN  IF e.do_build
        THEN [err |-> "SystemNotBuilt", eq |-> e, fld |-> f, sles |-> reg]
      ELSE IF e.get_tmpbuf = NULL
        THEN [err |-> "NullFunctionPointer", eq |-> e, fld |-> f, sles |-> reg]
      ELSE IF ~ f.defined
        THEN [err |-> "FieldNotFound", eq |-> e, fld |-> f, sles |-> reg1]
      ELSE IF e.matrix = NoObject \/ e.builder = NoObject
        THEN [err |-> "NullPointer", eq |-> e, fld |-> f, sles |-> reg1]
      ELSE [err |-> "none",
            eq |-> [e EXCEPT !.builder = b1,
                             !.do_build = SolveDoBuild(e.do_build, p.flag, code)],
            fld |-> f2, sles |-> cs_sles_free(reg2, e.field_id)]

\* cs_equation_solve: the error raised, the equation, the field and the
\* registry; code and x are what cs_sles_solve returns
SolveResult(e, p, f, reg, code, x) ==
  LET reg1 == cs_sles_find_or_add(reg, e.field_id)
      reg2 == cs_sles_solve(reg1, e.field_id)
      f1 == cs_field_current_to_previous(f)
      f2 == [f1 EXCEPT !.val = [kind |-> "sol", n |-> x]]
      b1 == IF e.builder.scheme = "CS_SPACE_SCHEME_CDOFB"
              THEN [e.builder EXCEPT !.face_values = [kind |-> "sol", n |-> x]]
              ELSE e.builder
  IN  IF e.get_tmpbuf = NULL
        THEN [err |-> "NullFunctionPointer", eq |-> e, fld |-> f, sles |-> reg]
      ELSE IF ~ f.defined
        THEN [err |-> "FieldNotFound", eq |-> e, fld |-> f, sles |-> reg1]
      ELSE IF e.matrix = NoObject \/ e.builder = NoObject
        THEN [err |-> "NullPointer", eq |-> e, fld |-> f, sles |-> reg1]
      ELSE [err |-> "none",
            eq |-> [e EXCEPT !.builder = b1,
                             !.do_build = SolveDoBuild(e.do_build, p.flag, code)],
            fld |-> f2, sles |-> cs_sles_free(reg2, e.field_id)]

\* One step of cs_equation_solve and what it leaves: the vector x, the
\* field, the registry of the solvers and eq->do_build
SolveStep(step, x, f, reg, do_build) ==
  [step |-> step, x |-> x, fld |-> f, sles |-> reg, do_build |-> do_build]

\* A plausible slip: the solution is written in the field before the
\* current values are copied to the previous ones.
MutSolveSteps(e, p, f, reg, code, x) ==
  LET reg1 == cs_sles_find_or_add(reg, e.field_id)
      reg2 == cs_sles_solve(reg1, e.field_id)
      sol == [kind |-> "sol", n |-> x]
      f1 == [f EXCEPT !.val = sol]
      f2 == cs_field_current_to_previous(f1)
      do_build == SolveDoBuild(e.do_build, p.flag, code)
  IN  << SolveStep("x = fld->val", f.val, f, reg1, e.do_build),
         SolveStep("cs_sles_solve", sol, f, reg2, e.do_build),
         SolveStep("update_field", sol, f1, reg2, e.do_build),
         SolveStep("cs_field_current_to_previous", sol, f2, reg2, e.do_build),
         SolveStep("do_build", sol, f2, reg2, do_build),
         SolveStep("cs_sles_free", sol, f2, cs_sles_free(reg2, e.field_id), do_build) >>

\* The steps of a cs_equation_solve that returns, in the order of the
\* statements of the function
SolveSteps(e, p, f, reg, code, x) ==
  LET reg1 == cs_sles_find_or_add(reg, e.field_id)
      reg2 == cs_sles_solve(reg1, e.field_id)
      sol == [kind |-> "sol", n |-> x]
      f1 == cs_field_current_to_previous(f)
      f2 == [f1 EXCEPT !.val = sol]
      do_build == SolveDoBuild(e.do_build, p.flag, code)
  IN  << SolveStep("x = fld->val", f.val, f, reg1, e.do_build),
         SolveStep("cs_sles_solve", sol, f, reg2, e.do_build),
         SolveStep("cs_field_current_to_previous", sol, f1, reg2, e.do_build),
         SolveStep("update_field", sol, f2, reg2, e.do_build),
         SolveStep("do_build", sol, f2, reg2, do_build),
         SolveStep("cs_sles_free", sol, f2, cs_sles_free(reg2, e.field_id), do_build) >>


\* A plausible slip: the post-processing is skipped only when no other
\* extra operation has been asked for.
MutExtraOpResult(e, p, f) ==
  IF e = NoObject THEN [err |-> "none", called |-> NULL]
  ELSE IF ~ f.defined THEN [err |-> "FieldNotFound", called |-> NULL]
  ELSE IF p.process_flag = {"CS_EQUATION_POST_NONE"} THEN [err |-> "none", called |-> NULL]
  ELSE IF e.postprocess = NULL THEN [err |-> "NullFunctionPointer", called |-> NULL]
  ELSE [err |-> "none", called |-> e.postprocess]

\* cs_equation_extra_op: the error raised and the function called through
\* eq->postprocess, if any.  The call of a null function pointer ends the
\* run.
ExtraOpResult(e, p, f) ==
  IF e = NoObject THEN [err |-> "none", called |-> NULL]
  \* cs_field_by_id stops on an unknown id
  ELSE IF ~ f.defined THEN [err |-> "FieldNotFound", called |-> NULL]
  ELSE IF "CS_EQUATION_POST_NONE" \in p.process_flag THEN [err |-> "none", called |-> NULL]
  ELSE IF e.postprocess = NULL THEN [err |-> "NullFunctionPointer", called |-> NULL]
  ELSE [err |-> "none", called |-> e.postprocess]

\* cs_equation_get_face_values: the error raised and the pointer returned.
\* eq->get_f_values is called without a test: a null function pointer ends
\* the run, and cs_cdofb_scaleq_get_face_values reads the builder.
GetFaceValuesResult(e, f) ==
  IF e = NoObject THEN [err |-> "none", ret |-> NoObject]
  ELSE IF ~ f.defined THEN [err |-> "FieldNotFound", ret |-> NoObject]
  ELSE IF e.get_f_values = NULL THEN [err |-> "NullFunctionPointer", ret |-> NoObject]
  ELSE IF e.builder = NoObject THEN [err |-> "NullPointer", ret |-> NoObject]
  ELSE [err |-> "none", ret |-> e.builder.face_values]

\* The arrays and structures that an equation owns and that are allocated
Allocated(e, p) ==
  {b \in {"ms"} : e.ms # NoObject}
  \cup {b \in {"matrix"} : e.matrix # NoObject}
  \cup {b \in {"rhs"} : e.rhs # NoObject}
  \cup {b \in {"builder"} : e.builder # NoObject}
  \cup {b \in {"bc.defs"} : p.bc.n_defs > 0}
  \cup {b \in {"reaction_terms"} : p.n_reaction_terms > 0}
  \cup {b \in {"source_terms"} : p.n_source_terms > 0}
  \cup {b \in {"ic_definitions"} : p.time_info.n_ic_definitions > 0}

\* cs_equation_free: the error raised, the pointer returned (the equation
\* itself when the run stops before the end) and what is still allocated.
\* No statement frees time_info.ic_definitions; eq->free_builder is called
\* without a test, and the call of a null function pointer ends the run.
FreeResult(e, p) ==
  LET released == {"bc.defs", "reaction_terms", "source_terms", "ms", "matrix", "rhs"}
  IN  IF e = NoObject
        THEN [err |-> "none", ret |-> NoObject, allocated |-> {}]
      ELSE IF e.free_builder = NULL
        THEN [err |-> "NullFunctionPointer", ret |-> e,
              allocated |-> Allocated(e, p) \ released]
      ELSE [err |-> "none", ret |-> NoObject,
            allocated |-> Allocated(e, p) \ (released \cup {"builder"})]

(***************************************************************************)
(* Post-processing (cs_post.c): the writers, the meshes and the output     *)
(* made through them.  A writer or a mesh is found by its id; a mesh       *)
(* names its writers, and an alias names its reference, by their position  *)
(* in the arrays _cs_post_writers and _cs_post_meshes, counted from 0.     *)
(* The FVM objects are outside the code: a writer is known by its time     *)
(* dependency, an exportable mesh by a number, and what a call hands to a  *)
(* writer is kept in last.out.  Times are counted in tenths of a           *)
(* microsecond.                                                            *)
(***************************************************************************)
\* fvm_writer_time_dep_t: the mesh is fixed
FVM_WRITER_FIXED_MESH == 0
\* fvm_writer_time_dep_t: the coordinates of the vertices may change
FVM_WRITER_TRANSIENT_COORDS == 1
\* fvm_writer_time_dep_t: the connectivity may change
FVM_WRITER_TRANSIENT_CONNECT == 2
\* the null fvm_nodal_t pointer; the exportable meshes are numbered from 1
NoNodal == 0

\* The static variables of cs_post.c before any call.  slack holds the
\* elements of _cs_post_meshes beyond _cs_post_n_meshes that a removal left
\* behind, destroyed the exportable meshes given to fvm_nodal_destroy and
\* reduced the ones given to fvm_nodal_reduce.
EmptyPost ==
  [writers |-> << >>, meshes |-> << >>, slack |-> << >>,
   min_writer_id |-> -2, min_mesh_id |-> -2, deformable |-> FALSE,
   n_nodal |-> 0, destroyed |-> {}, reduced |-> {}]

\* The result of a call: the error, the registry, what was handed to the
\* writers and the exportable meshes that were read
PostOk(p, out, uses) == [err |-> "none", post |-> p, out |-> out, uses |-> uses]

PostFail(p, e) == [err |-> e, post |-> p, out |-> {}, uses |-> {}]

Export(kind, writer_id, exp_mesh, nt, t) ==
  [kind |-> kind, writer |-> writer_id, mesh |-> exp_mesh, nt |-> nt, t |-> t]

fvm_writer_init(time_dep) == [time_dep |-> time_dep]

\* The position of the first writer of that id, or the number of writers
_cs_post_writer_id(p, writer_id) ==
  IF \E i \in 1..Len(p.writers) : p.writers[i].id = writer_id
  THEN (CHOOSE i \in 1..Len(p.writers) :
           /\ p.writers[i].id = writer_id
           /\ \A j \in 1..(i - 1) : p.writers[j].id # writer_id) - 1
  ELSE Len(p.writers)

\* The position of the first mesh of that id, or the number of meshes
_cs_post_mesh_id(p, mesh_id) ==
  IF \E i \in 1..Len(p.meshes) : p.meshes[i].id = mesh_id
  THEN (CHOOSE i \in 1..Len(p.meshes) :
           /\ p.meshes[i].id = mesh_id
           /\ \A j \in 1..(i - 1) : p.meshes[j].id # mesh_id) - 1
  ELSE Len(p.meshes)

\* A plausible slip: the loop that looks for the id among the meshes is
\* left out.
Mut_cs_post_add_mesh(p, mesh_id) ==
  IF mesh_id = 0 THEN PostFail(p, "MeshIdZero")
  ELSE PostOk([p EXCEPT
         !.meshes = Append(@, [id |-> mesh_id, cat_id |-> mesh_id,
                               alias |-> -1, add_groups |-> FALSE,
                               writer_id |-> << >>, nt_last |-> -1,
                               exp_mesh |-> NoNodal, _exp_mesh |-> NoNodal,
                               mod_flag_min |-> FVM_WRITER_TRANSIENT_CONNECT,
                               mod_flag_max |-> FVM_WRITER_FIXED_MESH]),
         !.slack = IF @ = << >> THEN @ ELSE Tail(@),
         !.min_mesh_id = IF mesh_id < @ THEN mesh_id ELSE @], {}, {})

\* The new mesh takes the element that follows the last one
_cs_post_add_mesh(p, mesh_id) ==
  IF mesh_id = 0 THEN PostFail(p, "MeshIdZero")
  ELSE IF \E i \in 1..Len(p.meshes) : p.meshes[i].id = mesh_id
  THEN PostFail(p, "MeshIdAssigned")
  ELSE PostOk([p EXCEPT
         !.meshes = Append(@, [id |-> mesh_id, cat_id |-> mesh_id,
                               alias |-> -1, add_groups |-> FALSE,
                               writer_id |-> << >>, nt_last |-> -1,
                               exp_mesh |-> NoNodal, _exp_mesh |-> NoNodal,
                               mod_flag_min |-> FVM_WRITER_TRANSIENT_CONNECT,
                               mod_flag_max |-> FVM_WRITER_FIXED_MESH]),
         !.slack = IF @ = << >> THEN @ ELSE Tail(@),
         !.min_mesh_id = IF mesh_id < @ THEN mesh_id ELSE @], {}, {})

\* The last mesh of the array, the one _cs_post_add_mesh returns
SetAddedMesh(p, post_mesh) == [p EXCEPT !.meshes[Len(p.meshes)] = post_mesh]

AddedMesh(p) == p.meshes[Len(p.meshes)]

RECURSIVE UpdateAliases(_, _, _)
\* The second loop of _cs_post_mod_flag_alias, from mesh i on: all is the
\* array _cs_post_meshes and n the number of meshes
UpdateAliases(all, n, i) ==
  IF i >= n THEN all
  ELSE LET post_mesh == all[i + 1]
       IN  IF post_mesh.alias > -1
           THEN LET ref_mesh == all[post_mesh.alias + 1]
                    lowered ==
                      [post_mesh EXCEPT
                         !.mod_flag_min = IF @ > ref_mesh.mod_flag_min
                                          THEN ref_mesh.mod_flag_min ELSE @,
                         !.mod_flag_max = IF @ > ref_mesh.mod_flag_max
                                          THEN ref_mesh.mod_flag_max ELSE @]
                IN  UpdateAliases([all EXCEPT ![i + 1] = lowered], n, i + 1)
           ELSE UpdateAliases(all, n, i + 1)

_cs_post_mod_flag_alias(all, n, mesh_id) ==
  LET post_mesh == all[mesh_id + 1]
      updated ==
        IF post_mesh.alias > -1
        THEN [all EXCEPT ![post_mesh.alias + 1] =
                [@ EXCEPT
                   !.mod_flag_min = IF post_mesh.mod_flag_min < @
                                    THEN post_mesh.mod_flag_min ELSE @,
                   !.mod_flag_max = IF post_mesh.mod_flag_max < @
                                    THEN post_mesh.mod_flag_max ELSE @]]
        ELSE all
  IN  UpdateAliases(updated, n, 0)

AddWriterResult(p, writer_id, mod_flag, frequency_n, frequency_t) ==
  IF writer_id = 0 THEN PostFail(p, "WriterIdZero")
  ELSE IF \E i \in 1..Len(p.writers) : p.writers[i].id = writer_id
  THEN PostFail(p, "WriterIdAssigned")
  ELSE LET flag == IF mod_flag >= 10 THEN mod_flag - 10 ELSE mod_flag
           time_dep == IF flag = 1 THEN FVM_WRITER_TRANSIENT_COORDS
                       ELSE IF flag >= 2 THEN FVM_WRITER_TRANSIENT_CONNECT
                       ELSE FVM_WRITER_FIXED_MESH
           writer == [id |-> writer_id, frequency_n |-> frequency_n,
                      frequency_t |-> frequency_t,
                      write_displ |-> (mod_flag >= 10), active |-> 0,
                      n_last |-> -1, t_last |-> 0,
                      writer |-> fvm_writer_init(time_dep)]
       IN  PostOk([p EXCEPT
                     !.writers = Append(@, writer),
                     !.min_writer_id = IF writer_id < @ THEN writer_id ELSE @],
                  {}, {})

\* _cs_post_define_mesh builds a new exportable mesh, owned by the mesh
AddMeshResult(p, mesh_id, add_groups) ==
  LET r == _cs_post_add_mesh(p, mesh_id)
      exp_mesh == p.n_nodal + 1
  IN  IF r.err # "none" THEN r
      ELSE PostOk([SetAddedMesh(r.post,
                                [AddedMesh(r.post) EXCEPT
                                   !.add_groups = add_groups,
                                   !.exp_mesh = exp_mesh,
                                   !._exp_mesh = exp_mesh])
                     EXCEPT !.n_nodal = exp_mesh], {}, {})

\* exp_mesh is an exportable mesh of the caller
AddExistingMeshResult(p, mesh_id, exp_mesh, transfer) ==
  LET r == _cs_post_add_mesh(p, mesh_id)
  IN  IF r.err # "none" THEN r
      ELSE PostOk([SetAddedMesh(r.post,
                                [AddedMesh(r.post) EXCEPT
                                   !.exp_mesh = exp_mesh,
                                   !._exp_mesh = IF transfer THEN exp_mesh
                                                 ELSE @])
                     EXCEPT !.n_nodal = IF exp_mesh > @ THEN exp_mesh ELSE @],
                  {}, {exp_mesh})

\* fvm_nodal_copy_edges builds a new exportable mesh from the one of the base
AddMeshEdgesResult(p, edges_id, base_id) ==
  LET base == _cs_post_mesh_id(p, base_id)
  IN  IF base >= Len(p.meshes) THEN PostFail(p, "MeshNotDefined")
      ELSE LET exp_mesh == p.meshes[base + 1].exp_mesh
               r == _cs_post_add_mesh(p, edges_id)
               exp_edges == p.n_nodal + 1
           IN  IF r.err # "none" THEN r
               ELSE PostOk([SetAddedMesh(r.post,
                                         [AddedMesh(r.post) EXCEPT
                                            !.exp_mesh = exp_edges,
                                            !._exp_mesh = exp_edges])
                              EXCEPT !.n_nodal = exp_edges], {}, {exp_mesh})

FreeMeshResult(p, mesh_id) ==
  LET _mesh_id == _cs_post_mesh_id(p, mesh_id)
      n == Len(p.meshes)
  IN  IF _mesh_id >= n THEN PostFail(p, "MeshNotDefined")
      ELSE IF \E i \in 1..n : p.meshes[i].alias = _mesh_id
      THEN PostFail(p, "MeshAliased")
      ELSE LET post_mesh == p.meshes[_mesh_id + 1]
           IN  IF \E i \in 1..Len(post_mesh.writer_id) :
                     p.writers[post_mesh.writer_id[i] + 1].writer.time_dep
                       # FVM_WRITER_FIXED_MESH
               THEN PostFail(p, "MeshTimeVarying")
               ELSE LET freed == [p.meshes EXCEPT
                                    ![_mesh_id + 1].writer_id = << >>]
                    IN  PostOk([p EXCEPT
                                  !.meshes = SubSeq(freed, 1, _mesh_id)
                                             \o SubSeq(freed, _mesh_id + 2, n),
                                  !.slack = <<freed[n]>> \o @,
                                  !.destroyed =
                                     IF post_mesh._exp_mesh # NoNodal
                                     THEN @ \cup {post_mesh._exp_mesh} ELSE @],
                               {}, {})

AliasMeshResult(p, alias_id, mesh_id) ==
  LET indref == _cs_post_mesh_id(p, mesh_id)
  IN  IF indref >= Len(p.meshes) THEN PostFail(p, "MeshNotDefined")
      ELSE IF p.meshes[indref + 1].alias > -1 THEN PostFail(p, "AliasOfAlias")
      ELSE LET r == _cs_post_add_mesh(p, alias_id)
               ref_mesh == p.meshes[indref + 1]
           IN  IF r.err # "none" THEN r
               ELSE PostOk(SetAddedMesh(r.post,
                                        [AddedMesh(r.post) EXCEPT
                                           !.alias = indref,
                                           !.exp_mesh = ref_mesh.exp_mesh,
                                           !.mod_flag_min = ref_mesh.mod_flag_min,
                                           !.mod_flag_max = ref_mesh.mod_flag_max]),
                           {}, {})

\* A plausible slip: the mesh is exported at once whatever the writer allows.
MutAssociateResult(p, mesh_id, writer_id) ==
  LET _mesh_id == _cs_post_mesh_id(p, mesh_id)
      _writer_id == _cs_post_writer_id(p, writer_id)
  IN  IF _mesh_id >= Len(p.meshes) THEN PostFail(p, "MeshNotDefined")
      ELSE IF _writer_id >= Len(p.writers) THEN PostFail(p, "WriterNotDefined")
      ELSE LET post_mesh == p.meshes[_mesh_id + 1]
               writer == p.writers[_writer_id + 1]
               mod_flag == writer.writer.time_dep
               associated ==
                 [post_mesh EXCEPT
                    !.writer_id = Append(@, _writer_id),
                    !.nt_last = -1,
                    !.mod_flag_min = IF mod_flag < @ THEN mod_flag ELSE @,
                    !.mod_flag_max = IF mod_flag > @ THEN mod_flag ELSE @]
               all == _cs_post_mod_flag_alias(
                        [(p.meshes \o p.slack) EXCEPT ![_mesh_id + 1] = associated],
                        Len(p.meshes), _mesh_id)
           IN  IF \E i \in 1..Len(post_mesh.writer_id) :
                     post_mesh.writer_id[i] = _writer_id
               THEN PostOk(p, {}, {})
               ELSE PostOk([p EXCEPT
                              !.meshes = SubSeq(all, 1, Len(p.meshes)),
                              !.slack = SubSeq(all, Len(p.meshes) + 1, Len(all)),
                              !.deformable = @ \/ writer.write_displ],
                           {Export("mesh", _writer_id, post_mesh.exp_mesh, 0, 0)},
                           {post_mesh.exp_mesh})

AssociateResult(p, mesh_id, writer_id) ==
  LET _mesh_id == _cs_post_mesh_id(p, mesh_id)
      _writer_id == _cs_post_writer_id(p, writer_id)
  IN  IF _mesh_id >= Len(p.meshes) THEN PostFail(p, "MeshNotDefined")
      ELSE IF _writer_id >= Len(p.writers) THEN PostFail(p, "WriterNotDefined")
      ELSE LET post_mesh == p.meshes[_mesh_id + 1]
               writer == p.writers[_writer_id + 1]
               mod_flag == writer.writer.time_dep
               associated ==
                 [post_mesh EXCEPT
                    !.writer_id = Append(@, _writer_id),
                    !.nt_last = -1,
                    !.mod_flag_min = IF mod_flag < @ THEN mod_flag ELSE @,
                    !.mod_flag_max = IF mod_flag > @ THEN mod_flag ELSE @]
               all == _cs_post_mod_flag_alias(
                        [(p.meshes \o p.slack) EXCEPT ![_mesh_id + 1] = associated],
                        Len(p.meshes), _mesh_id)
           IN  IF \E i \in 1..Len(post_mesh.writer_id) :
                     post_mesh.writer_id[i] = _writer_id
               THEN PostOk(p, {}, {})
               ELSE PostOk([p EXCEPT
                              !.meshes = SubSeq(all, 1, Len(p.meshes)),
                              !.slack = SubSeq(all, Len(p.meshes) + 1, Len(all)),
                              !.deformable = @ \/ writer.write_displ],
                           IF mod_flag = FVM_WRITER_FIXED_MESH
                           THEN {Export("mesh", _writer_id, post_mesh.exp_mesh, 0, 0)}
                           ELSE {},
                           {post_mesh.exp_mesh})

\* frequency_t*(1-1e-6), exact for the frequencies of the model, which are
\* whole numbers of tenths of a second
FrequencyThreshold(frequency_t) == frequency_t - frequency_t \div 1000000

\* A plausible slip: the test on the time step of the last output is left out.
MutDefaultActive(writer, nt_cur_abs, t_cur_abs) ==
  IF writer.frequency_t > 0
  THEN IF t_cur_abs - writer.t_last >= FrequencyThreshold(writer.frequency_t)
       THEN 1 ELSE 0
  ELSE IF writer.frequency_n > 0
  THEN IF nt_cur_abs % writer.frequency_n = 0 THEN 1 ELSE 0
  ELSE 0

\* The flag cs_post_activate_if_default gives a writer.  The remainder of C
\* and the modulus of TLA+ are zero for the same numbers.
DefaultActive(writer, nt_cur_abs, t_cur_abs) ==
  IF writer.n_last = nt_cur_abs THEN 1
  ELSE IF writer.frequency_t > 0
  THEN IF t_cur_abs - writer.t_last >= FrequencyThreshold(writer.frequency_t)
       THEN 1 ELSE 0
  ELSE IF writer.frequency_n > 0
  THEN IF nt_cur_abs % writer.frequency_n = 0 THEN 1 ELSE 0
  ELSE 0

ActivateIfDefaultResult(p, nt_cur_abs, t_cur_abs) ==
  PostOk([p EXCEPT
            !.writers = [i \in 1..Len(p.writers) |->
                           [p.writers[i] EXCEPT
                              !.active = DefaultActive(p.writers[i],
                                                       nt_cur_abs, t_cur_abs)]]],
         {}, {})

ActivateWriterResult(p, writer_id, activate) ==
  LET flag == IF activate > 0 THEN 1 ELSE 0
  IN  IF writer_id # 0
      THEN LET i == _cs_post_writer_id(p, writer_id)
           IN  IF i >= Len(p.writers) THEN PostFail(p, "WriterNotDefined")
               ELSE PostOk([p EXCEPT !.writers[i + 1].active = flag], {}, {})
      ELSE PostOk([p EXCEPT
                     !.writers = [i \in 1..Len(p.writers) |->
                                    [p.writers[i] EXCEPT !.active = flag]]],
                  {}, {})

\* _cs_post_write_mesh: the value of write_mesh for one writer of the mesh
WriteMeshFlag(post_mesh, writer, nt_cur_abs) ==
  IF writer.writer.time_dep = FVM_WRITER_FIXED_MESH
  THEN post_mesh.nt_last < 0
  ELSE post_mesh.nt_last < nt_cur_abs /\ writer.active = 1

\* _cs_post_write_mesh: what the writers of the mesh are given
WriteMeshExports(p, post_mesh, nt_cur_abs, t_cur_abs) ==
  LET written == {j \in 1..Len(post_mesh.writer_id) :
                    WriteMeshFlag(post_mesh,
                                  p.writers[post_mesh.writer_id[j] + 1],
                                  nt_cur_abs)}
  IN  {Export("mesh", post_mesh.writer_id[j], post_mesh.exp_mesh,
              nt_cur_abs, t_cur_abs) :
         j \in {k \in written :
                  p.writers[post_mesh.writer_id[k] + 1].writer.time_dep
                    # FVM_WRITER_FIXED_MESH}}
      \cup
      {Export("domain", post_mesh.writer_id[j], post_mesh.exp_mesh,
              nt_cur_abs, t_cur_abs) :
         j \in {k \in written : post_mesh.id = -1 \/ post_mesh.id = -2}}

\* _cs_post_write_mesh: write_mesh after the loop on the writers.  With no
\* writer the variable was never assigned: garbage tells what is read.
WriteMeshLast(p, post_mesh, nt_cur_abs, garbage) ==
  IF Len(post_mesh.writer_id) = 0 THEN garbage
  ELSE WriteMeshFlag(post_mesh,
                     p.writers[post_mesh.writer_id[Len(post_mesh.writer_id)] + 1],
                     nt_cur_abs)

\* cs_post_write_meshes: garbage is the set of the positions of the meshes
\* for which the unassigned write_mesh reads as true
WriteMeshesResult(p, nt_cur_abs, t_cur_abs, garbage) ==
  LET out == UNION {WriteMeshExports(p, p.meshes[i], nt_cur_abs, t_cur_abs) :
                      i \in 1..Len(p.meshes)}
  IN  PostOk([p EXCEPT
                !.writers =
                   [w \in 1..Len(p.writers) |->
                      IF nt_cur_abs >= 0 /\ \E e \in out : e.writer = w - 1
                      THEN [p.writers[w] EXCEPT !.n_last = nt_cur_abs,
                                                !.t_last = t_cur_abs]
                      ELSE p.writers[w]],
                !.meshes =
                   [i \in 1..Len(p.meshes) |->
                      IF WriteMeshLast(p, p.meshes[i], nt_cur_abs, i \in garbage)
                      THEN [p.meshes[i] EXCEPT !.nt_last = nt_cur_abs]
                      ELSE p.meshes[i]],
                !.reduced =
                   @ \cup {p.meshes[i]._exp_mesh :
                             i \in {k \in 1..Len(p.meshes) :
                                      /\ p.meshes[k].mod_flag_max
                                           = FVM_WRITER_FIXED_MESH
                                      /\ p.meshes[k]._exp_mesh # NoNodal}}],
             out, {e.mesh : e \in out})

\* A plausible slip: the test of the active flag is left out of the loop.
MutWriteVarResult(p, mesh_id, nt_cur_abs, t_cur_abs) ==
  LET _mesh_id == _cs_post_mesh_id(p, mesh_id)
  IN  IF _mesh_id >= Len(p.meshes) THEN PostFail(p, "MeshNotDefined")
      ELSE LET post_mesh == p.meshes[_mesh_id + 1]
               taking == {post_mesh.writer_id[i] :
                            i \in 1..Len(post_mesh.writer_id)}
               out == {Export("per_element", w, post_mesh.exp_mesh,
                              nt_cur_abs, t_cur_abs) : w \in taking}
           IN  PostOk([p EXCEPT
                         !.writers =
                            [w \in 1..Len(p.writers) |->
                               IF nt_cur_abs >= 0 /\ (w - 1) \in taking
                               THEN [p.writers[w] EXCEPT !.n_last = nt_cur_abs,
                                                         !.t_last = t_cur_abs]
                               ELSE p.writers[w]]],
                      out, {e.mesh : e \in out})

\* The loop on the writers of the mesh: a writer is there once
WriteVarResult(p, mesh_id, nt_cur_abs, t_cur_abs) ==
  LET _mesh_id == _cs_post_mesh_id(p, mesh_id)
  IN  IF _mesh_id >= Len(p.meshes) THEN PostFail(p, "MeshNotDefined")
      ELSE LET post_mesh == p.meshes[_mesh_id + 1]
               taking == {post_mesh.writer_id[i] :
                            i \in {k \in 1..Len(post_mesh.writer_id) :
                                     p.writers[post_mesh.writer_id[k] + 1].active
                                       = 1}}
               out == {Export("per_element", w, post_mesh.exp_mesh,
                              nt_cur_abs, t_cur_abs) : w \in taking}
           IN  PostOk([p EXCEPT
                         !.writers =
                            [w \in 1..Len(p.writers) |->
                               IF nt_cur_abs >= 0 /\ (w - 1) \in taking
                               THEN [p.writers[w] EXCEPT !.n_last = nt_cur_abs,
                                                         !.t_last = t_cur_abs]
                               ELSE p.writers[w]]],
                      out, {e.mesh : e \in out})

WriteVertexVarResult(p, mesh_id, nt_cur_abs, t_cur_abs) ==
  LET _mesh_id == _cs_post_mesh_id(p, mesh_id)
  IN  IF _mesh_id >= Len(p.meshes) THEN PostFail(p, "MeshNotDefined")
      ELSE LET post_mesh == p.meshes[_mesh_id + 1]
               taking == {post_mesh.writer_id[i] :
                            i \in {k \in 1..Len(post_mesh.writer_id) :
                                     p.writers[post_mesh.writer_id[k] + 1].active
                                       = 1}}
               out == {Export("per_node", w, post_mesh.exp_mesh,
                              nt_cur_abs, t_cur_abs) : w \in taking}
           IN  PostOk([p EXCEPT
                         !.writers =
                            [w \in 1..Len(p.writers) |->
                               IF nt_cur_abs >= 0 /\ (w - 1) \in taking
                               THEN [p.writers[w] EXCEPT !.n_last = nt_cur_abs,
                                                         !.t_last = t_cur_abs]
                               ELSE p.writers[w]]],
                      out, {e.mesh : e \in out})

\* cs_post_init_main_writer with the parameters the Fortran module gives
InitMainWriterResult(p, indic_vol, indic_brd, indic_syr, indic_mod, ntchr, frchr) ==
  IF indic_vol = 0 /\ indic_brd = 0 /\ indic_syr = 0 THEN PostOk(p, {}, {})
  ELSE AddWriterResult(p, -1, indic_mod, ntchr, frchr)

\* cs_post_init_main_meshes on a mesh that has faces
InitMainMeshesResult(p, indic_vol, indic_brd) ==
  LET vol == IF indic_vol > 0
             THEN AssociateResult(AddMeshResult(p, -1, TRUE).post, -1, -1).post
             ELSE p
  IN  IF indic_brd > 0
      THEN AssociateResult(AddMeshResult(vol, -2, TRUE).post, -2, -1)
      ELSE PostOk(vol, {}, {})

(***************************************************************************)
(* Inputs of the calls                                                     *)
(***************************************************************************)
\* The 22 documented key strings
DocumentedKeyNames == { _print_eqkey(EqKeys[i]) : i \in DOMAIN EqKeys }

\* Strings that are not keys: prefixes of keys, keys with one character
\* more or less, another case, the empty string
OtherKeyNames ==
  { "", "hodge", "hodge_diff", "hodge_diff_alg", "itsol_", "itsol_epsilon",
    "bc", "bc_", "adv_", "adv_weight_crit", "adv_weight_criterion_", "time_",
    "time_schemes", "space", "Verbosity", "post_freq" }

KeyNames == DocumentedKeyNames \cup OtherKeyNames

\* For each key, its documented values and values that are not documented
OptionValues(keyname) ==
  CASE keyname = "space_scheme"     -> {"cdo_vb", "cdo_fb", "cdo_cb"}
    [] keyname = "hodge_diff_algo"  -> {"cost", "voronoi", "wbs", "auto"}
    [] keyname = "hodge_time_algo"  -> {"cost", "voronoi", "wbs", "auto"}
    [] keyname = "hodge_diff_coef"  -> {"dga", "sushi", "gcr", "0.5", "abc"}
    [] keyname = "hodge_time_coef"  -> {"dga", "sushi", "gcr", "0.5", "abc"}
    [] keyname = "solver_family"    -> {"cs", "petsc", "hypre"}
    [] keyname = "itsol"            -> {"cg", "bicg", "gmres", "amg", "lu"}
    [] keyname = "precond"          -> {"jacobi", "poly1", "ssor", "ilu0", "icc0", "amg", "as", "none"}
    [] keyname = "itsol_max_iter"   -> {"100", "-1", "many"}
    [] keyname = "itsol_eps"        -> {"1e-6", "tiny"}
    [] keyname = "itsol_resnorm"    -> {"true", "false", "maybe"}
    [] keyname = "verbosity"        -> {"0", "1", "2", "high"}
    [] keyname = "itsol_verbosity"  -> {"0", "2", "high"}
    [] keyname = "bc_enforcement"   -> {"strong", "penalization", "weak_sym", "weak", "nitsche"}
    [] keyname = "bc_quadrature"    -> {"subdiv", "bary", "higher", "highest", "gauss"}
    [] keyname = "extra_op"         -> {"peclet", "none", "upwind_coef", "courant"}
    [] keyname = "adv_formulation"  -> {"conservative", "non_conservative", "skew"}
    [] keyname = "adv_weight"       -> {"upwind", "samarskii", "sg", "d10g5", "centered", "quick"}
    [] keyname = "adv_weight_criterion" -> {"xexc", "flux", "peclet"}
    [] keyname = "adv_flux_quad"    -> {"bary", "higher", "highest", "gauss"}
    [] keyname = "time_scheme"      -> {"implicit", "explicit", "crank_nicolson", "theta_scheme", "rk4"}
    [] keyname = "time_theta"       -> {"0.5", "1.0", "half"}
    [] OTHER                        -> {"1"}

\* The material properties and advection fields a term may be linked to
Handles == {"unity", "conductivity"}

LinkKeywords == {"diffusion", "time", "advection", "reaction"}

MeshLocationNames == {"wall", "cells", "nowhere"}

BcKeys == {"dirichlet", "neumann", "robin", "periodic"}

DefKeys == {"value", "analytic", "table"}

\* Values of a condition: zero in two spellings, the value of the spec's
\* example, a value below the smallest normal double, not a number
BcValues == {"0.0", "0", "0.1", "1e-310", "zero"}

(***************************************************************************)
(* Initial state: the equation just returned by cs_equation_create         *)
(***************************************************************************)
VarTypes == {"CS_PARAM_VAR_SCAL", "CS_PARAM_VAR_VECT"}

\* What the coefficient of the time Hodge operator, never written by
\* _create_equation_param, may hold
Garbage == { Dbl(0, 0), Dbl(7, 0) }

NoCalls ==
  [calls |-> 0, setups |-> 0, inits |-> 0, builds |-> 0, solves |-> 0,
   posts |-> 0]

Call(op, args) == [op |-> op, a |-> args]

InitWithPost(petscs, var_types, garbages, posts) ==
  /\ have_petsc \in petscs
  /\ \E vt \in var_types, g \in garbages :
        eqp = _create_equation_param("CS_EQUATION_TYPE_USER", vt,
                                     "CS_PARAM_BC_HMG_NEUMANN", have_petsc, g)
  /\ eq = NewEquation
  /\ fld = NoField
  /\ sles = EmptyRegistry
  /\ err = "none"
  /\ last = Call("create", << >>)
  /\ cnt = NoCalls
  /\ post \in posts

InitWith(petscs, var_types, garbages) ==
  InitWithPost(petscs, var_types, garbages, {EmptyPost})

Init == InitWith(BOOLEAN, VarTypes, Garbage)

(***************************************************************************)
(* Actions: one per public function.  bft_error does not return: after an  *)
(* error no other call is made.                                            *)
(***************************************************************************)
Alive == err = "none" /\ ~ (last.op = "free" /\ last.a = <<"eq">>)

\* A call that only works on the parameter set; r is its result and max
\* the number of such calls that are followed
ParamCallWithin(max, r, op, args) ==
  /\ Alive
  /\ cnt.calls < max
  /\ eqp' = r.eqp
  /\ err' = r.err
  /\ last' = Call(op, args)
  /\ cnt' = [cnt EXCEPT !.calls = @ + 1]
  /\ UNCHANGED <<have_petsc, eq, fld, sles, post>>

ParamCall(r, op, args) == ParamCallWithin(MaxCalls, r, op, args)

cs_equation_set_option(keyname, val) ==
  ParamCall(SetOptionResult(eqp, keyname, val), "set_option", <<keyname, val>>)

cs_equation_link(keyword, pointer) ==
  ParamCall(LinkResult(eqp, keyword, pointer), "link", <<keyword, pointer>>)

cs_equation_set_ic(ml_name, def_key, val) ==
  ParamCall(SetIcResult(eqp, ml_name, def_key, val), "set_ic", <<ml_name, def_key, val>>)

cs_equation_add_bc(ml_name, bc_key, def_key, val) ==
  ParamCall(AddBcResult(eqp, ml_name, bc_key, def_key, val), "add_bc",
            <<ml_name, bc_key, def_key, val>>)

cs_equation_add_reaction(r_name, type_name, property) ==
  ParamCall(AddReactionResult(eqp, r_name, type_name, property), "add_reaction",
            <<r_name, type_name, property>>)

cs_equation_set_reaction_option(r_name, keyname, keyval) ==
  ParamCall(SetReactionOptionResult(eqp, r_name, keyname, keyval), "set_reaction_option",
            <<r_name, keyname, keyval>>)

cs_equation_add_gravity_source_term(ml_name) ==
  ParamCall(AddGravitySourceTermResult(eqp, cs_mesh_location_get_id_by_name(ml_name), "gravity"),
            "add_gravity_source_term", <<ml_name>>)

cs_equation_add_source_term_by_val(st_name, ml_name, val) ==
  ParamCall(AddSourceTermResult(eqp, st_name, ml_name, "CS_PARAM_DEF_BY_VALUE", val),
            "add_source_term_by_val", <<st_name, ml_name, val>>)

cs_equation_add_source_term_by_analytic(st_name, ml_name, func) ==
  ParamCall(AddSourceTermResult(eqp, st_name, ml_name, "CS_PARAM_DEF_BY_ANALYTIC_FUNCTION", func),
            "add_source_term_by_analytic", <<st_name, ml_name, func>>)

cs_equation_set_source_term_option(st_name, keyname, keyval) ==
  ParamCall(SetSourceTermOptionResult(eqp, st_name, keyname, keyval), "set_source_term_option",
            <<st_name, keyname, keyval>>)

cs_equation_last_setup ==
  /\ Alive
  /\ cnt.setups < MaxSetups
  /\ LET r == LastSetupResult(eq, eqp, sles, have_petsc)
     IN  /\ eq' = r.eq
         /\ eqp' = r.eqp
         /\ sles' = r.sles
         /\ err' = r.err
  /\ last' = Call("last_setup", << >>)
  /\ cnt' = [cnt EXCEPT !.setups = @ + 1]
  /\ UNCHANGED <<have_petsc, fld, post>>

(***************************************************************************)
(* The options of an equation alone                                        *)
(***************************************************************************)
SetOption == \E keyname \in KeyNames : \E val \in OptionValues(keyname) :
                cs_equation_set_option(keyname, val)

LastSetup == cs_equation_last_setup

InitOpt == InitWith(BOOLEAN, {"CS_PARAM_VAR_SCAL"}, Garbage)

NextOpt == SetOption \/ LastSetup

SpecOpt == InitOpt /\ [][NextOpt]_vars


(***************************************************************************)
(* The terms, conditions and records of an equation                        *)
(***************************************************************************)
Link == \E keyword \in LinkKeywords, pointer \in Handles :
           cs_equation_link(keyword, pointer)

\* The value is read by atof only when the definition is by value: the
\* other kinds of definition are given one payload.
AddBc == \E ml_name \in {"wall", "nowhere"}, bc_key \in BcKeys, def_key \in DefKeys :
            \E val \in (IF def_key = "value" THEN BcValues ELSE {"0.0"}) :
               cs_equation_add_bc(ml_name, bc_key, def_key, val)

SetIc == \E ml_name \in {"cells", "nowhere"}, def_key \in DefKeys, val \in {"0.0", "1.0"} :
            cs_equation_set_ic(ml_name, def_key, val)

AddReaction == \E r_name \in {NULL, "decay"}, type_name \in {"linear", "quadratic"} :
                  cs_equation_add_reaction(r_name, type_name, "unity")

SetReactionOption ==
  \E r_name \in {NULL, "decay", "growth"}, keyname \in {"lumping", "hodge_algo", "order"},
     keyval \in {"true", "wbs"} :
        cs_equation_set_reaction_option(r_name, keyname, keyval)

AddGravitySourceTerm == \E ml_name \in {"cells"} : cs_equation_add_gravity_source_term(ml_name)

AddSourceTermByVal == \E st_name \in {NULL, "heat"}, ml_name \in {"cells", "nowhere"} :
                         cs_equation_add_source_term_by_val(st_name, ml_name, "1.0")

AddSourceTermByAnalytic == \E st_name \in {NULL, "heat"}, ml_name \in {"cells", "nowhere"} :
                              cs_equation_add_source_term_by_analytic(st_name, ml_name, "func")

SetSourceTermOption == \E st_name \in {NULL, "heat", "cold"} :
                          cs_equation_set_source_term_option(st_name, "quadrature", "bary")

\* The one option that the reaction terms depend on
SetSpaceSchemeOption == \E val \in {"cdo_fb"} : cs_equation_set_option("space_scheme", val)

InitCfg == InitWith({FALSE}, VarTypes, {Dbl(0, 0)})

NextCfg ==
  \/ SetSpaceSchemeOption
  \/ Link
  \/ AddBc
  \/ SetIc
  \/ AddReaction
  \/ SetReactionOption
  \/ AddGravitySourceTerm
  \/ AddSourceTermByVal
  \/ AddSourceTermByAnalytic
  \/ SetSourceTermOption
  \/ LastSetup

SpecCfg == InitCfg /\ [][NextCfg]_vars

\* One field is created for an equation: the field module refuses a second
\* field of the same name.
cs_equation_create_field ==
  /\ Alive
  /\ ~ fld.defined
  /\ fld' = cs_field_create("CS_EQUATION_UNSTEADY" \in eqp.flag)
  /\ eq' = [eq EXCEPT !.field_id = 0]
  /\ last' = Call("create_field", << >>)
  /\ UNCHANGED <<have_petsc, eqp, sles, err, cnt, post>>

CreateField == cs_equation_create_field

(***************************************************************************)
(* The choice of the linear solver and its setup                           *)
(***************************************************************************)
\* The options that _sles_initialization reads
SolverOptions ==
  { <<"solver_family", "cs">>, <<"solver_family", "petsc">>,
    <<"itsol", "cg">>, <<"itsol", "bicg">>, <<"itsol", "gmres">>, <<"itsol", "amg">>,
    <<"precond", "jacobi">>, <<"precond", "poly1">>, <<"precond", "ssor">>,
    <<"precond", "ilu0">>, <<"precond", "icc0">>, <<"precond", "amg">>,
    <<"precond", "as">>, <<"itsol_verbosity", "2">> }

SetSolverOption ==
  \E o \in SolverOptions :
     ParamCallWithin(MaxSolverCalls, SetOptionResult(eqp, o[1], o[2]),
                     "set_option", <<o[1], o[2]>>)

InitSles == InitWith(BOOLEAN, {"CS_PARAM_VAR_SCAL"}, {Dbl(0, 0)})

NextSles == SetSolverOption \/ CreateField \/ LastSetup

SpecSles == InitSles /\ [][NextSles]_vars

(***************************************************************************)
(* The life of an equation: setup, field, builds and solves                *)
(***************************************************************************)

cs_equation_init_system ==
  /\ Alive
  /\ cnt.inits < MaxInits
  /\ LET r == InitSystemResult(eq, eqp, fld)
     IN  /\ eq' = [eq EXCEPT !.builder = r.builder]
         /\ fld' = r.fld
         /\ err' = r.err
  /\ last' = Call("init_system", << >>)
  /\ cnt' = [cnt EXCEPT !.inits = @ + 1]
  /\ UNCHANGED <<have_petsc, eqp, sles, post>>

cs_equation_needs_build(e) == e.do_build

cs_equation_build_system ==
  /\ Alive
  /\ cnt.builds < MaxBuilds
  /\ LET r == BuildSystemResult(eq, eqp, fld, cnt.builds + 1)
     IN  /\ eq' = r.eq
         /\ err' = r.err
  /\ last' = Call("build_system", << >>)
  /\ cnt' = [cnt EXCEPT !.builds = @ + 1]
  /\ UNCHANGED <<have_petsc, eqp, fld, sles, post>>

cs_equation_solve(code) ==
  /\ Alive
  /\ cnt.solves < MaxSolves
  /\ LET r == SolveResult(eq, eqp, fld, sles, code, cnt.solves + 1)
     IN  /\ eq' = r.eq
         /\ fld' = r.fld
         /\ sles' = r.sles
         /\ err' = r.err
  /\ last' = Call("solve", <<code>>)
  /\ cnt' = [cnt EXCEPT !.solves = @ + 1]
  /\ UNCHANGED <<have_petsc, eqp, post>>

\* The equation given to a call: the equation of the model, or no
\* equation
Equations == {eq, NoObject}

EqName(e) == IF e = NoObject THEN NULL ELSE "eq"

cs_equation_extra_op(e) ==
  /\ Alive
  /\ LET r == ExtraOpResult(e, eqp, fld)
     IN  /\ err' = r.err
         /\ last' = [op |-> "extra_op", a |-> <<EqName(e)>>, called |-> r.called]
  /\ UNCHANGED <<have_petsc, eqp, eq, fld, sles, cnt, post>>

cs_equation_get_face_values(e) ==
  /\ Alive
  /\ LET r == GetFaceValuesResult(e, fld)
     IN  /\ err' = r.err
         /\ last' = [op |-> "get_face_values", a |-> <<EqName(e)>>, ret |-> r.ret]
  /\ UNCHANGED <<have_petsc, eqp, eq, fld, sles, cnt, post>>

\* The options that change what the setup, the builds and the solves do
LifeOptions ==
  { <<"space_scheme", "cdo_fb">>, <<"verbosity", "2">>, <<"itsol", "amg">>,
    <<"precond", "ssor">>, <<"solver_family", "petsc">>, <<"solver_family", "cs">> }

SetLifeOption == \E o \in LifeOptions : cs_equation_set_option(o[1], o[2])

LinkTerm == \E keyword \in {"time", "diffusion"} : cs_equation_link(keyword, "unity")

SetIcByValue == \E val \in {"1.0"} : cs_equation_set_ic("cells", "value", val)

InitSystem == cs_equation_init_system

BuildSystem == cs_equation_build_system

Solve == \E code \in ConvergenceCodes : cs_equation_solve(code)

ExtraOp == \E e \in Equations : cs_equation_extra_op(e)

GetFaceValues == \E e \in Equations : cs_equation_get_face_values(e)

InitLife == InitWith(BOOLEAN, {"CS_PARAM_VAR_SCAL"}, {Dbl(0, 0)})

Next ==
  \/ SetLifeOption
  \/ LinkTerm
  \/ SetIcByValue
  \/ LastSetup
  \/ CreateField
  \/ InitSystem
  \/ BuildSystem
  \/ Solve

Spec == InitLife /\ [][Next]_vars

(***************************************************************************)
(* The driver loop on an initialized equation: at each iteration,          *)
(* if (cs_equation_needs_build(eq)) cs_equation_build_system(eq);          *)
(* cs_equation_solve(eq)                                                   *)
(***************************************************************************)
\* The loop starts once cs_equation_init_system has given a builder
Initialized(e) == e.builder # NoObject

\* The build of an iteration: the test is made at the start of the
\* iteration, that is, at the start of the loop or after a solve
DriverBuild ==
  /\ Initialized(eq)
  /\ last.op # "build_system"
  /\ cs_equation_needs_build(eq)
  /\ cs_equation_build_system

\* The solve of an iteration: after the build, or at once when the test
\* finds the system up to date
DriverSolve ==
  /\ Initialized(eq)
  /\ last.op = "build_system" \/ ~ cs_equation_needs_build(eq)
  /\ Solve

\* The setup calls are made before the loop
NextLoop ==
  \/ ~ Initialized(eq) /\ SetLifeOption
  \/ ~ Initialized(eq) /\ LinkTerm
  \/ ~ Initialized(eq) /\ LastSetup
  \/ ~ Initialized(eq) /\ CreateField
  \/ ~ Initialized(eq) /\ InitSystem
  \/ DriverBuild
  \/ DriverSolve

SpecLoop == InitLife /\ [][NextLoop]_vars

(***************************************************************************)
(* The calls that read an equation after its setup                         *)
(***************************************************************************)
\* The options that change what these calls do
PostOptions ==
  { <<"space_scheme", "cdo_fb">>, <<"extra_op", "none">>, <<"extra_op", "peclet">>,
    <<"extra_op", "upwind_coef">> }

SetPostOption == \E o \in PostOptions : cs_equation_set_option(o[1], o[2])

InitPost == InitWith({FALSE}, {"CS_PARAM_VAR_SCAL"}, {Dbl(0, 0)})

NextPost ==
  \/ SetPostOption
  \/ LastSetup
  \/ CreateField
  \/ InitSystem
  \/ ExtraOp
  \/ GetFaceValues

SpecPost == InitPost /\ [][NextPost]_vars

(***************************************************************************)
(* The reaction terms and their properties                                 *)
(***************************************************************************)
cs_equation_get_reaction_property(e, r_name) ==
  /\ Alive
  /\ LET r == GetReactionPropertyResult(e, eqp, r_name)
     IN  /\ err' = r.err
         /\ last' = [op |-> "get_reaction_property", a |-> <<EqName(e), r_name>>,
                     ret |-> r.ret]
  /\ UNCHANGED <<have_petsc, eqp, eq, fld, sles, cnt, post>>

ReactionNames == {NULL, "decay", "growth", "reaction_00", "reaction_01"}

AddLinearReaction ==
  \E r_name \in {NULL, "decay", "reaction_01"}, property \in Handles :
     cs_equation_add_reaction(r_name, "linear", property)

SetNamedReactionOption ==
  \E r_name \in ReactionNames, keyval \in {"cost", "wbs"} :
     cs_equation_set_reaction_option(r_name, "hodge_algo", keyval)

GetReactionProperty ==
  \E e \in Equations, r_name \in ReactionNames :
     cs_equation_get_reaction_property(e, r_name)

InitRea == InitWith({FALSE}, {"CS_PARAM_VAR_SCAL"}, {Dbl(0, 0)})

NextRea == AddLinearReaction \/ SetNamedReactionOption \/ GetReactionProperty

SpecRea == InitRea /\ [][NextRea]_vars

(***************************************************************************)
(* The end of an equation                                                  *)
(***************************************************************************)
\* With no equation the call has no effect; with the equation of the model
\* no call follows.
cs_equation_free(e) ==
  /\ Alive
  /\ LET r == FreeResult(e, eqp)
     IN  /\ err' = r.err
         /\ last' = [op |-> "free", a |-> <<EqName(e)>>, ret |-> r.ret,
                     allocated |-> IF e = NoObject THEN Allocated(eq, eqp)
                                   ELSE r.allocated]
  /\ UNCHANGED <<have_petsc, eqp, eq, fld, sles, cnt, post>>

Free == \E e \in Equations : cs_equation_free(e)

AddBcOnWall == \E val \in {"0.1"} : cs_equation_add_bc("wall", "dirichlet", "value", val)

InitMem == InitWith({FALSE}, {"CS_PARAM_VAR_SCAL"}, {Dbl(0, 0)})

NextMem ==
  \/ SetIcByValue
  \/ AddBcOnWall
  \/ AddReaction
  \/ AddSourceTermByVal
  \/ LastSetup
  \/ CreateField
  \/ InitSystem
  \/ BuildSystem
  \/ Free

SpecMem == InitMem /\ [][NextMem]_vars

(***************************************************************************)
(* The calls of the post-processing layer                                  *)
(***************************************************************************)
\* One call.  Reading an exportable mesh that was destroyed is undefined:
\* the call goes on as if the mesh were there, or the run ends in it.
PostCall(r, op, args) ==
  /\ Alive
  /\ cnt.posts < MaxPostCalls
  /\ \E crash \in (IF r.err = "none" /\ r.uses \cap post.destroyed # {}
                   THEN BOOLEAN ELSE {FALSE}) :
        /\ post' = IF crash THEN post ELSE r.post
        /\ err' = IF crash THEN "UseAfterFree" ELSE r.err
        /\ last' = [op |-> op, a |-> args,
                    out |-> IF crash THEN {} ELSE r.out]
  /\ cnt' = [cnt EXCEPT !.posts = @ + 1]
  /\ UNCHANGED <<have_petsc, eqp, eq, fld, sles>>

cs_post_add_writer(writer_id, mod_flag, frequency_n, frequency_t) ==
  PostCall(AddWriterResult(post, writer_id, mod_flag, frequency_n, frequency_t),
           "cs_post_add_writer", <<writer_id, mod_flag, frequency_n, frequency_t>>)

cs_post_add_mesh(mesh_id, add_groups) ==
  PostCall(AddMeshResult(post, mesh_id, add_groups),
           "cs_post_add_mesh", <<mesh_id>>)

cs_post_add_existing_mesh(mesh_id, exp_mesh, transfer) ==
  PostCall(AddExistingMeshResult(post, mesh_id, exp_mesh, transfer),
           "cs_post_add_existing_mesh", <<mesh_id, exp_mesh>>)

cs_post_add_mesh_edges(edges_id, base_id) ==
  PostCall(AddMeshEdgesResult(post, edges_id, base_id),
           "cs_post_add_mesh_edges", <<edges_id, base_id>>)

cs_post_free_mesh(mesh_id) ==
  PostCall(FreeMeshResult(post, mesh_id), "cs_post_free_mesh", <<mesh_id>>)

cs_post_alias_mesh(alias_id, mesh_id) ==
  PostCall(AliasMeshResult(post, alias_id, mesh_id),
           "cs_post_alias_mesh", <<alias_id, mesh_id>>)

cs_post_associate(mesh_id, writer_id) ==
  PostCall(AssociateResult(post, mesh_id, writer_id),
           "cs_post_associate", <<mesh_id, writer_id>>)

cs_post_activate_if_default(nt_cur_abs, t_cur_abs) ==
  PostCall(ActivateIfDefaultResult(post, nt_cur_abs, t_cur_abs),
           "cs_post_activate_if_default", <<nt_cur_abs, t_cur_abs>>)

cs_post_activate_writer(writer_id, activate) ==
  PostCall(ActivateWriterResult(post, writer_id, activate),
           "cs_post_activate_writer", <<writer_id, activate>>)

cs_post_write_meshes(nt_cur_abs, t_cur_abs) ==
  \E garbage \in SUBSET {i \in 1..Len(post.meshes) :
                           Len(post.meshes[i].writer_id) = 0} :
     PostCall(WriteMeshesResult(post, nt_cur_abs, t_cur_abs, garbage),
              "cs_post_write_meshes", <<nt_cur_abs, t_cur_abs>>)

cs_post_write_var(mesh_id, nt_cur_abs, t_cur_abs) ==
  PostCall(WriteVarResult(post, mesh_id, nt_cur_abs, t_cur_abs),
           "cs_post_write_var", <<mesh_id, nt_cur_abs, t_cur_abs>>)

cs_post_write_vertex_var(mesh_id, nt_cur_abs, t_cur_abs) ==
  PostCall(WriteVertexVarResult(post, mesh_id, nt_cur_abs, t_cur_abs),
           "cs_post_write_vertex_var", <<mesh_id, nt_cur_abs, t_cur_abs>>)

(***************************************************************************)
(* The registry of the writers and of the meshes, from the empty one       *)
(***************************************************************************)
\* mod_flag, frequency_n and frequency_t of the writers that are added
WriterKinds == {<<0, 2, 0>>, <<2, 0, 10000000>>, <<11, -1, -10000000>>}

WriterIds == {-1, 0, 1}

MeshIds == {0, 1, 2, 3}

AddWriter ==
  \E writer_id \in WriterIds, kind \in WriterKinds :
     cs_post_add_writer(writer_id, kind[1], kind[2], kind[3])

AddMesh == \E mesh_id \in MeshIds : cs_post_add_mesh(mesh_id, FALSE)

AddExistingMesh ==
  \E mesh_id \in MeshIds, transfer \in BOOLEAN :
     cs_post_add_existing_mesh(mesh_id, post.n_nodal + 1, transfer)

AliasMesh ==
  \E alias_id \in MeshIds, mesh_id \in MeshIds \ {0} :
     cs_post_alias_mesh(alias_id, mesh_id)

AddMeshEdges ==
  \E edges_id \in MeshIds, base_id \in MeshIds \ {0} :
     cs_post_add_mesh_edges(edges_id, base_id)

FreeMesh == \E mesh_id \in MeshIds \ {0} : cs_post_free_mesh(mesh_id)

Associate ==
  \E mesh_id \in {-1, -2, 1, 2}, writer_id \in WriterIds \ {0} :
     cs_post_associate(mesh_id, writer_id)

InitReg == InitWith({FALSE}, {"CS_PARAM_VAR_SCAL"}, {Dbl(0, 0)})

NextReg ==
  \/ AddWriter
  \/ AddMesh
  \/ AddExistingMesh
  \/ AliasMesh
  \/ AddMeshEdges
  \/ FreeMesh
  \/ Associate

SpecReg == InitReg /\ [][NextReg]_vars

\* The calls that set the time dependency of a mesh and of its aliases; no
\* mesh is removed, so that every alias field is the position of its mesh
NextAlias ==
  \/ AddWriter
  \/ AddMesh
  \/ AliasMesh
  \/ Associate

SpecAlias == InitReg /\ [][NextAlias]_vars

(***************************************************************************)
(* The output, from the registry that cs_post_init_main_writer and         *)
(* cs_post_init_main_meshes leave                                          *)
(***************************************************************************)
\* The time step numbers and the times of the calls
Instants == {<<-1, 0>>, <<0, 0>>, <<1, 9999995>>, <<2, 10000000>>}

ActivateIfDefault ==
  \E now \in Instants : cs_post_activate_if_default(now[1], now[2])

ActivateWriter ==
  \E writer_id \in WriterIds, activate \in {0, 1} :
     cs_post_activate_writer(writer_id, activate)

WriteMeshes == \E now \in Instants : cs_post_write_meshes(now[1], now[2])

WriteVar ==
  \E mesh_id \in {-1, -2}, now \in Instants :
     cs_post_write_var(mesh_id, now[1], now[2])

WriteVertexVar ==
  \E mesh_id \in {-1, -2}, now \in Instants :
     cs_post_write_vertex_var(mesh_id, now[1], now[2])

InitOut ==
  /\ InitWithPost({FALSE}, {"CS_PARAM_VAR_SCAL"}, {Dbl(0, 0)},
       {InitMainMeshesResult(
          InitMainWriterResult(EmptyPost, 1, indic_brd, 0,
                               kind[1], kind[2], kind[3]).post,
          1, indic_brd).post :
        indic_brd \in {0, 1},
        kind \in {<<0, 2, -10000000>>, <<1, -1, 10000000>>}})

NextOut ==
  \/ AddWriter
  \/ Associate
  \/ ActivateIfDefault
  \/ ActivateWriter
  \/ WriteMeshes
  \/ WriteVar
  \/ WriteVertexVar

SpecOut == InitOut /\ [][NextOut]_vars

(***************************************************************************)
(* Properties of cs_equation_set_option                                    *)
(***************************************************************************)
\* cs_equation_last_setup has been called and has returned
SetupCompleted == cnt.setups > 0 /\ err = "none"

\* C1: once cs_equation_last_setup has completed, every later
\* cs_equation_set_option call with a recognized key fails with the Locked
\* error and leaves every field of the parameter set unchanged.
C1_SetOptionLocked ==
  [][ (SetupCompleted /\ last'.op = "set_option" /\ last'.a[1] \in DocumentedKeyNames)
        => (err' = "Locked" /\ eqp' = eqp) ]_vars

\* A call of cs_equation_set_option with a recognized key, made after
\* cs_equation_last_setup has returned, has failed with Locked.
C1_Witness ==
  /\ last.op = "set_option"
  /\ last.a[1] \in DocumentedKeyNames
  /\ cnt.setups > 0
  /\ "CS_EQUATION_LOCKED" \in eqp.flag
  /\ err = "Locked"

\* C7: each of the 22 documented key strings is recognized by _get_eqkey as
\* the key that _print_eqkey prints so, and a call with a documented key
\* never fails with InvalidKey; every other string fails with InvalidKey and
\* changes no parameter.
C7_KeyValidationTotal ==
  [][ last'.op = "set_option" =>
        LET keyname == last'.a[1]
        IN  /\ keyname \in DocumentedKeyNames =>
                 /\ err' # "InvalidKey"
                 /\ _get_eqkey(keyname) # EQKEY_ERROR
                 /\ _print_eqkey(_get_eqkey(keyname)) = keyname
            /\ keyname \notin DocumentedKeyNames =>
                 /\ err' = "InvalidKey"
                 /\ eqp' = eqp ]_vars

\* A string that is the beginning of the key adv_weight_criterion has been
\* refused.
C7_Witness ==
  /\ last.op = "set_option"
  /\ last.a[1] = "adv_weight_crit"
  /\ err = "InvalidKey"

\* The words accepted for the keys whose values are words
EnumeratedValues(keyname) ==
  CASE keyname = "space_scheme"     -> {"cdo_vb", "cdo_fb"}
    [] keyname = "hodge_diff_algo"  -> {"cost", "voronoi", "wbs"}
    [] keyname = "hodge_time_algo"  -> {"cost", "voronoi", "wbs"}
    [] keyname = "solver_family"    -> {"cs", "petsc"}
    [] keyname = "itsol"            -> {"cg", "bicg", "gmres", "amg"}
    [] keyname = "precond"          -> {"jacobi", "poly1", "ssor", "ilu0", "icc0", "amg", "as"}
    [] keyname = "itsol_resnorm"    -> {"true", "false"}
    [] keyname = "bc_enforcement"   -> {"strong", "penalization", "weak_sym", "weak"}
    [] keyname = "bc_quadrature"    -> {"subdiv", "bary", "higher", "highest"}
    [] keyname = "extra_op"         -> {"peclet", "none", "upwind_coef"}
    [] keyname = "adv_formulation"  -> {"conservative", "non_conservative"}
    [] keyname = "adv_weight"       -> {"upwind", "samarskii", "sg", "d10g5", "centered"}
    [] keyname = "adv_weight_criterion" -> {"xexc", "flux"}
    [] keyname = "adv_flux_quad"    -> {"bary", "higher", "highest"}
    [] keyname = "time_scheme"      -> {"implicit", "explicit", "crank_nicolson", "theta_scheme"}

EnumeratedKeyNames ==
  { "space_scheme", "hodge_diff_algo", "hodge_time_algo", "solver_family", "itsol",
    "precond", "itsol_resnorm", "bc_enforcement", "bc_quadrature", "extra_op",
    "adv_formulation", "adv_weight", "adv_weight_criterion", "adv_flux_quad",
    "time_scheme" }

\* C8: on an unlocked equation, a value outside the vocabulary of its key
\* yields the InvalidValue error.  Stated for the keys whose values are
\* words, itsol_resnorm and extra_op among them.
C8_InvalidValueRejected ==
  [][ ( /\ last'.op = "set_option"
        /\ "CS_EQUATION_LOCKED" \notin eqp.flag
        /\ last'.a[1] \in EnumeratedKeyNames
        /\ last'.a[2] \notin EnumeratedValues(last'.a[1]) )
        => err' = "InvalidValue" ]_vars

\* cs_equation_set_option(eq, "itsol_resnorm", "maybe") has returned
\* without an error.
C8_Witness ==
  /\ last.op = "set_option"
  /\ last.a = <<"itsol_resnorm", "maybe">>
  /\ err = "none"

\* C9: in every reachable state the space scheme and the two Hodge types
\* are a consistent triple: vertex-based with (VPCD, EPFD) or face-based
\* with (CPVD, EDFP).
C9_ConsistentTriple ==
  \/ /\ eqp.space_scheme = "CS_SPACE_SCHEME_CDOVB"
     /\ eqp.time_hodge.type = "CS_PARAM_HODGE_TYPE_VPCD"
     /\ eqp.diffusion_hodge.type = "CS_PARAM_HODGE_TYPE_EPFD"
  \/ /\ eqp.space_scheme = "CS_SPACE_SCHEME_CDOFB"
     /\ eqp.time_hodge.type = "CS_PARAM_HODGE_TYPE_CPVD"
     /\ eqp.diffusion_hodge.type = "CS_PARAM_HODGE_TYPE_EDFP"

\* The scheme has been set to face-based and another option has been set
\* after it.
C9_Witness ==
  /\ last.op = "set_option"
  /\ last.a[1] # "space_scheme"
  /\ err = "none"
  /\ eqp.space_scheme = "CS_SPACE_SCHEME_CDOFB"

\* The parameter set as a function from the names of its members to their
\* values
Members(p) ==
  [ m \in { "space_scheme", "time_hodge.type", "time_hodge.algo", "time_hodge.coef",
            "time_hodge.inv_pty", "diffusion_hodge.type", "diffusion_hodge.algo",
            "diffusion_hodge.coef", "diffusion_hodge.inv_pty", "algo_info.type",
            "algo_info", "itsol_info.solver", "itsol_info.precond",
            "itsol_info.n_max_iter", "itsol_info.eps", "itsol_info.resid_normalized",
            "verbosity", "sles_verbosity", "bc.enforcement", "bc.quad_type",
            "bc.use_subdiv", "bc.defs", "process_flag", "advection_info.formulation",
            "advection_info.weight_algo", "advection_info.weight_criterion",
            "advection_info.quad_type", "time_info.scheme", "time_info.theta",
            "time_info.rest", "rest" } |->
    CASE m = "space_scheme" -> p.space_scheme
      [] m = "time_hodge.type" -> p.time_hodge.type
      [] m = "time_hodge.algo" -> p.time_hodge.algo
      [] m = "time_hodge.coef" -> p.time_hodge.coef
      [] m = "time_hodge.inv_pty" -> p.time_hodge.inv_pty
      [] m = "diffusion_hodge.type" -> p.diffusion_hodge.type
      [] m = "diffusion_hodge.algo" -> p.diffusion_hodge.algo
      [] m = "diffusion_hodge.coef" -> p.diffusion_hodge.coef
      [] m = "diffusion_hodge.inv_pty" -> p.diffusion_hodge.inv_pty
      [] m = "algo_info.type" -> p.algo_info.type
      [] m = "algo_info" -> [p.algo_info EXCEPT !.type = NULL]
      [] m = "itsol_info.solver" -> p.itsol_info.solver
      [] m = "itsol_info.precond" -> p.itsol_info.precond
      [] m = "itsol_info.n_max_iter" -> p.itsol_info.n_max_iter
      [] m = "itsol_info.eps" -> p.itsol_info.eps
      [] m = "itsol_info.resid_normalized" -> p.itsol_info.resid_normalized
      [] m = "verbosity" -> p.verbosity
      [] m = "sles_verbosity" -> p.sles_verbosity
      [] m = "bc.enforcement" -> p.bc.enforcement
      [] m = "bc.quad_type" -> p.bc.quad_type
      [] m = "bc.use_subdiv" -> p.bc.use_subdiv
      [] m = "bc.defs" -> <<p.bc.default_bc, p.bc.n_defs, p.bc.defs>>
      [] m = "process_flag" -> p.process_flag
      [] m = "advection_info.formulation" -> p.advection_info.formulation
      [] m = "advection_info.weight_algo" -> p.advection_info.weight_algo
      [] m = "advection_info.weight_criterion" -> p.advection_info.weight_criterion
      [] m = "advection_info.quad_type" -> p.advection_info.quad_type
      [] m = "time_info.scheme" -> p.time_info.scheme
      [] m = "time_info.theta" -> p.time_info.theta
      [] m = "time_info.rest" ->
           <<p.time_info.do_lumping, p.time_info.n_ic_definitions, p.time_info.ic_definitions>>
      [] m = "rest" ->
           << p.type, p.var_type, p.flag, p.time_property, p.diffusion_property,
              p.advection_field, p.n_reaction_terms, p.reaction_terms,
              p.reaction_properties, p.n_source_terms, p.source_terms >> ]

\* The members that belong to each key: the member the key names; for
\* space_scheme the two Hodge types that go with the scheme; for
\* time_scheme the theta that defines the scheme; for bc_quadrature the
\* rule and its subdivision flag.
FieldGroup(keyname) ==
  CASE keyname = "space_scheme"     -> {"space_scheme", "time_hodge.type", "diffusion_hodge.type"}
    [] keyname = "hodge_diff_algo"  -> {"diffusion_hodge.algo"}
    [] keyname = "hodge_time_algo"  -> {"time_hodge.algo"}
    [] keyname = "hodge_diff_coef"  -> {"diffusion_hodge.coef"}
    [] keyname = "hodge_time_coef"  -> {"time_hodge.coef"}
    [] keyname = "solver_family"    -> {"algo_info.type"}
    [] keyname = "itsol"            -> {"itsol_info.solver"}
    [] keyname = "precond"          -> {"itsol_info.precond"}
    [] keyname = "itsol_max_iter"   -> {"itsol_info.n_max_iter"}
    [] keyname = "itsol_eps"        -> {"itsol_info.eps"}
    [] keyname = "itsol_resnorm"    -> {"itsol_info.resid_normalized"}
    [] keyname = "verbosity"        -> {"verbosity"}
    [] keyname = "itsol_verbosity"  -> {"sles_verbosity"}
    [] keyname = "bc_enforcement"   -> {"bc.enforcement"}
    [] keyname = "bc_quadrature"    -> {"bc.quad_type", "bc.use_subdiv"}
    [] keyname = "extra_op"         -> {"process_flag"}
    [] keyname = "adv_formulation"  -> {"advection_info.formulation"}
    [] keyname = "adv_weight"       -> {"advection_info.weight_algo"}
    [] keyname = "adv_weight_criterion" -> {"advection_info.weight_criterion"}
    [] keyname = "adv_flux_quad"    -> {"advection_info.quad_type"}
    [] keyname = "time_scheme"      -> {"time_info.scheme", "time_info.theta"}
    [] keyname = "time_theta"       -> {"time_info.theta"}

\* C10: a successful cs_equation_set_option changes only the members of
\* its key and leaves every other parameter unchanged: solver_family
\* changes only the solver family, and only space_scheme rewrites the two
\* Hodge types.
C10_OneFieldGroup ==
  [][ (last'.op = "set_option" /\ err' = "none") =>
        \A m \in DOMAIN Members(eqp) :
           m \notin FieldGroup(last'.a[1]) => Members(eqp')[m] = Members(eqp)[m] ]_vars

\* The solver family has been changed to petsc on an equation created
\* with the in-house defaults: the solver and preconditioner are still
\* those defaults.
C10_Witness ==
  /\ last.op = "set_option"
  /\ last.a = <<"solver_family", "petsc">>
  /\ err = "none"
  /\ eqp.algo_info.type = "CS_EQUATION_ALGO_PETSC_ITSOL"
  /\ eqp.itsol_info.solver = "CS_PARAM_ITSOL_CG"
  /\ eqp.itsol_info.precond = "CS_PARAM_PRECOND_DIAG"


(***************************************************************************)
(* Properties of the calls that link terms and add records                 *)
(***************************************************************************)
\* C2: once cs_equation_last_setup has completed, every later
\* cs_equation_link call with the term diffusion, time or advection fails
\* with the Locked error and leaves the flags of the terms and the attached
\* property and advection-field handles unchanged.
C2_LinkLocked ==
  [][ (SetupCompleted /\ last'.op = "link"
         /\ last'.a[1] \in {"diffusion", "time", "advection"})
        => /\ err' = "Locked"
           /\ eqp'.flag = eqp.flag
           /\ eqp'.diffusion_property = eqp.diffusion_property
           /\ eqp'.time_property = eqp.time_property
           /\ eqp'.advection_field = eqp.advection_field ]_vars

\* cs_equation_link(eq, "time", "unity") has returned without an error on
\* a locked equation, which now carries the unsteady term.
C2_Witness ==
  /\ last.op = "link"
  /\ last.a = <<"time", "unity">>
  /\ cnt.setups > 0
  /\ err = "none"
  /\ eqp.flag = {"CS_EQUATION_LOCKED", "CS_EQUATION_UNSTEADY"}
  /\ eqp.time_property = "unity"

RecordCalls ==
  { "add_bc", "set_ic", "add_reaction", "add_source_term_by_val",
    "add_source_term_by_analytic", "add_gravity_source_term",
    "set_reaction_option", "set_source_term_option" }

\* The records of a parameter set and their numbers
Records(p) ==
  << p.bc.n_defs, p.bc.defs, p.time_info.n_ic_definitions, p.time_info.ic_definitions,
     p.n_reaction_terms, p.reaction_terms, p.reaction_properties,
     p.n_source_terms, p.source_terms >>

\* C3: once cs_equation_last_setup has completed, every later call that
\* adds or modifies a record (boundary condition, initial condition,
\* reaction term, source term, option of a reaction or source term) fails
\* with the Locked error, and the records and their numbers stay as they
\* were.
C3_RecordsLocked ==
  [][ (SetupCompleted /\ last'.op \in RecordCalls)
        => (err' = "Locked" /\ Records(eqp') = Records(eqp)) ]_vars

\* cs_equation_add_bc has returned without an error on a locked equation,
\* which now has one more boundary condition.
C3_Witness ==
  /\ last.op = "add_bc"
  /\ last.a = <<"wall", "dirichlet", "value", "0.1">>
  /\ cnt.setups > 0
  /\ "CS_EQUATION_LOCKED" \in eqp.flag
  /\ err = "none"
  /\ eqp.bc.n_defs = 1

\* The homogeneous variant of a kind of condition that has one
Homogeneous(bc_type) ==
  IF bc_type = "CS_PARAM_BC_DIRICHLET" THEN "CS_PARAM_BC_HMG_DIRICHLET"
  ELSE IF bc_type = "CS_PARAM_BC_NEUMANN" THEN "CS_PARAM_BC_HMG_NEUMANN"
  ELSE bc_type

\* The kind that cs_equation_add_bc is to store: the homogeneous variant
\* of the kind requested when the value of a definition by value on a
\* scalar equation is small, the kind requested otherwise.
ExpectedBcKind(bc_key, def_key, var_type, small) ==
  IF var_type = "CS_PARAM_VAR_SCAL" /\ def_key = "value" /\ small
    THEN Homogeneous(BcType(bc_key))
    ELSE BcType(bc_key)

\* The kind of the record added by the last cs_equation_add_bc
StoredBcKind == eqp.bc.defs[eqp.bc.n_defs].bc_type

IsZero(d) == d.m = 0

\* C6 as it is written: on a scalar equation with a definition by value, a
\* Dirichlet or Neumann condition whose value is exactly zero is stored as
\* its homogeneous variant; with any non-zero value, a non-scalar unknown
\* or another kind of definition the stored kind is the one requested;
\* Robin conditions are never downgraded.
C6_ExactlyZero ==
  (last.op = "add_bc" /\ err = "none") =>
     StoredBcKind = ExpectedBcKind(last.a[2], last.a[3], eqp.var_type,
                                   IsZero(atof(last.a[4])))

\* C6: on a scalar equation with a definition by value, a Dirichlet or
\* Neumann condition whose value is of magnitude below DBL_MIN, the
\* smallest positive normal double (zero and the subnormal values), is
\* stored as its homogeneous variant; with a value of magnitude DBL_MIN or
\* more (0.1), a non-scalar unknown or another kind of definition the
\* stored kind is the one requested; Robin conditions are never downgraded.
C6_BelowDblMin ==
  (last.op = "add_bc" /\ err = "none") =>
     StoredBcKind = ExpectedBcKind(last.a[2], last.a[3], eqp.var_type,
                                   fabs_lt_DBL_MIN(atof(last.a[4])))

\* A Dirichlet condition of value 1e-310, which is not zero, has been
\* stored as homogeneous Dirichlet on a scalar equation.
C6_Witness ==
  /\ last.op = "add_bc"
  /\ last.a = <<"wall", "dirichlet", "value", "1e-310">>
  /\ err = "none"
  /\ eqp.var_type = "CS_PARAM_VAR_SCAL"
  /\ StoredBcKind = "CS_PARAM_BC_HMG_DIRICHLET"

(***************************************************************************)
(* Properties of the staleness flag                                        *)
(***************************************************************************)
\* C4: for an equation with the unsteady term, cs_equation_needs_build
\* returns true after every cs_equation_solve, whatever the flag before
\* the solve and whatever the convergence code.
C4_UnsteadyNeedsBuild ==
  [][ (last'.op = "solve" /\ err' = "none" /\ "CS_EQUATION_UNSTEADY" \in eqp.flag)
        => cs_equation_needs_build(eq') ]_vars

\* A first solve, made after a build that had cleared the flag, has ended
\* with a code other than convergence on an unsteady equation, and the
\* flag is set.
C4_Witness ==
  /\ last.op = "solve"
  /\ last.a[1] = "CS_SLES_DIVERGED"
  /\ cnt.solves = 1
  /\ cnt.builds >= 1
  /\ err = "none"
  /\ "CS_EQUATION_UNSTEADY" \in eqp.flag
  /\ cs_equation_needs_build(eq)

\* C5: for an equation without the unsteady term, cs_equation_solve leaves
\* the staleness flag unchanged: cs_equation_needs_build returns after the
\* solve the value it returned before it.
C5_SteadyKeepsFlag ==
  [][ (last'.op = "solve" /\ err' = "none" /\ "CS_EQUATION_UNSTEADY" \notin eqp.flag)
        => cs_equation_needs_build(eq') = cs_equation_needs_build(eq) ]_vars

\* A solve has returned on a steady equation and the flag is still clear.
C5_Witness ==
  /\ last.op = "solve"
  /\ err = "none"
  /\ "CS_EQUATION_UNSTEADY" \notin eqp.flag
  /\ ~ cs_equation_needs_build(eq)

(***************************************************************************)
(* Properties of the setup of the linear solver                            *)
(***************************************************************************)
InHouseFamily == eqp.algo_info.type = "CS_EQUATION_ALGO_CS_ITSOL"

PetscFamily == eqp.algo_info.type = "CS_EQUATION_ALGO_PETSC_ITSOL"

Locked(p) == "CS_EQUATION_LOCKED" \in p.flag

\* The context ctx is a solver of the algorithm asked for
SolverOfAlgorithm(ctx, solver) ==
  CASE solver = "CS_PARAM_ITSOL_CG" -> ctx.kind = "cs_sles_it" /\ ctx.type = "CS_SLES_PCG"
    [] solver = "CS_PARAM_ITSOL_BICG" -> ctx.kind = "cs_sles_it" /\ ctx.type = "CS_SLES_BICGSTAB"
    [] solver = "CS_PARAM_ITSOL_GMRES" -> ctx.kind = "cs_sles_it" /\ ctx.type = "CS_SLES_GMRES"
    [] solver = "CS_PARAM_ITSOL_AMG" -> ctx.kind = "cs_multigrid"
    [] OTHER -> FALSE

\* C11: with the in-house solver family, cs_equation_last_setup succeeds
\* for every pair of an algorithm among CG, BiCGStab, GMRES, AMG and a
\* preconditioner among diagonal and poly1: it returns, the equation is
\* locked and a solver of the requested algorithm is registered under the
\* field id of the equation.
C11_InHouseSupported ==
  [][ ( /\ last'.op = "last_setup"
        /\ InHouseFamily
        /\ eqp.itsol_info.solver \in {"CS_PARAM_ITSOL_CG", "CS_PARAM_ITSOL_BICG",
                                       "CS_PARAM_ITSOL_GMRES", "CS_PARAM_ITSOL_AMG"}
        /\ eqp.itsol_info.precond \in {"CS_PARAM_PRECOND_DIAG", "CS_PARAM_PRECOND_POLY1"} )
      => /\ err' = "none"
         /\ Locked(eqp')
         /\ eq.field_id \in DOMAIN sles'
         /\ SolverOfAlgorithm(sles'[eq.field_id], eqp.itsol_info.solver) ]_vars

\* The setup of an in-house AMG solver with the diagonal preconditioner has
\* stopped on an error, the multigrid solver being registered
C11_Witness ==
  /\ last.op = "last_setup"
  /\ err = "UnsupportedSolverCombination"
  /\ InHouseFamily
  /\ eqp.itsol_info.solver = "CS_PARAM_ITSOL_AMG"
  /\ eqp.itsol_info.precond = "CS_PARAM_PRECOND_DIAG"
  /\ ~ Locked(eqp)
  /\ eq.field_id \in DOMAIN sles
  /\ sles[eq.field_id].kind = "cs_multigrid"

\* C12: with the in-house solver family, cs_equation_last_setup stops on
\* the error UnsupportedSolverCombination for every preconditioner other
\* than diagonal and poly1, whatever the algorithm, and the registry of
\* solvers is then as it was before the call: no solver is registered, with
\* the Jacobi preconditioner or any other.
C12_OtherPrecondRefused ==
  [][ ( /\ last'.op = "last_setup"
        /\ InHouseFamily
        /\ eqp.itsol_info.precond \notin {"CS_PARAM_PRECOND_DIAG", "CS_PARAM_PRECOND_POLY1"} )
      => /\ err' = "UnsupportedSolverCombination"
         /\ sles' = sles
         /\ ~ Locked(eqp') ]_vars

C12_Witness ==
  /\ last.op = "last_setup"
  /\ err = "UnsupportedSolverCombination"
  /\ InHouseFamily
  /\ eqp.itsol_info.solver = "CS_PARAM_ITSOL_GMRES"
  /\ eqp.itsol_info.precond = "CS_PARAM_PRECOND_SSOR"
  /\ sles = EmptyRegistry

\* The pairs of an algorithm and a preconditioner of the claim C13
PetscPairs ==
  ({"CS_PARAM_ITSOL_CG"} \X {"CS_PARAM_PRECOND_DIAG", "CS_PARAM_PRECOND_SSOR",
                              "CS_PARAM_PRECOND_ICC0", "CS_PARAM_PRECOND_AMG",
                              "CS_PARAM_PRECOND_AS"})
  \cup ({"CS_PARAM_ITSOL_GMRES", "CS_PARAM_ITSOL_BICG"}
           \X {"CS_PARAM_PRECOND_ILU0", "CS_PARAM_PRECOND_DIAG"})

\* C13: with the PETSc solver family and PETSc compiled in,
\* cs_equation_last_setup succeeds exactly for the nine pairs CG with
\* Jacobi, SSOR, ICC0, AMG or AS, GMRES with ILU0 or Jacobi, BiCGStab with
\* ILU0 or Jacobi (Jacobi being the block Jacobi hook for the last two
\* algorithms), and stops on the error UnsupportedSolverCombination for
\* every other pair, those of the AMG algorithm included.
C13_PetscNinePairs ==
  [][ (last'.op = "last_setup" /\ have_petsc /\ PetscFamily)
      => LET pair == <<eqp.itsol_info.solver, eqp.itsol_info.precond>>
         IN  IF pair \in PetscPairs
               THEN /\ err' = "none"
                    /\ Locked(eqp')
                    /\ sles'[eq.field_id].kind = "cs_sles_petsc"
                    /\ pair = <<"CS_PARAM_ITSOL_GMRES", "CS_PARAM_PRECOND_DIAG">>
                         => sles'[eq.field_id].setup_hook = "_gmres_bjacobi_setup_hook"
                    /\ pair = <<"CS_PARAM_ITSOL_BICG", "CS_PARAM_PRECOND_DIAG">>
                         => sles'[eq.field_id].setup_hook = "_bicg_bjacobi_setup_hook"
               ELSE /\ err' = "UnsupportedSolverCombination"
                    /\ ~ Locked(eqp') ]_vars

C13_Witness ==
  /\ last.op = "last_setup"
  /\ err = "none"
  /\ have_petsc
  /\ PetscFamily
  /\ eqp.itsol_info.solver = "CS_PARAM_ITSOL_CG"
  /\ eqp.itsol_info.precond = "CS_PARAM_PRECOND_AS"
  /\ Locked(eqp)
  /\ sles[eq.field_id].setup_hook = "_cg_as_setup_hook"

\* C14: with the PETSc solver family and PETSc not compiled in,
\* cs_equation_last_setup stops on the error BackendUnavailable for every
\* pair of an algorithm and a preconditioner, and the equation is not
\* locked.
C14_NoPetscUnavailable ==
  [][ (last'.op = "last_setup" /\ ~ have_petsc /\ PetscFamily)
      => /\ err' = "BackendUnavailable"
         /\ ~ Locked(eqp')
         /\ sles' = sles ]_vars

C14_Witness ==
  /\ last.op = "last_setup"
  /\ err = "BackendUnavailable"
  /\ ~ have_petsc
  /\ PetscFamily
  /\ eqp.itsol_info.solver = "CS_PARAM_ITSOL_GMRES"
  /\ eqp.itsol_info.precond = "CS_PARAM_PRECOND_ILU0"
  /\ ~ Locked(eqp)

C16_FailureKeepsState ==
  [][ ( /\ last'.op = "last_setup"
        /\ err' \in {"UnsupportedSolverCombination", "BackendUnavailable"} )
      => /\ ~ Locked(eqp')
         /\ eq' = eq
         /\ eqp'.flag = eqp.flag
         /\ sles' = sles ]_vars

\* A setup has stopped in the setup of the solver, for a preconditioner
\* that the in-house solvers do not have, and the functions of the scheme
\* are bound
C16_Witness ==
  /\ last.op = "last_setup"
  /\ err = "UnsupportedSolverCombination"
  /\ InHouseFamily
  /\ eqp.itsol_info.precond = "CS_PARAM_PRECOND_SSOR"
  /\ ~ Locked(eqp)
  /\ eq.init_builder = "cs_cdovb_scaleq_init"
  /\ sles = EmptyRegistry

(***************************************************************************)
(* Properties of the calls that follow the setup                           *)
(***************************************************************************)
\* C17: cs_equation_get_face_values on a locked vertex-based equation
\* returns a null pointer, the sign that the scheme has no face values,
\* without calling a function that gives face values; a pointer other than
\* null is returned only for a face-based equation, and is then the array
\* of face values of its builder.
C17_FaceValuesOnlyFaceBased ==
  [][ (last'.op = "get_face_values" /\ last'.a = <<"eq">> /\ fld.defined)
      => /\ (Locked(eqp) /\ eqp.space_scheme = "CS_SPACE_SCHEME_CDOVB")
              => (err' = "none" /\ last'.ret = NoObject)
         /\ (err' = "none" /\ last'.ret # NoObject)
              => /\ eqp.space_scheme = "CS_SPACE_SCHEME_CDOFB"
                 /\ last'.ret = eq.builder.face_values ]_vars

\* The call on a locked vertex-based equation, whose field exists, has
\* ended the run in the call of a null function pointer
C17_Witness ==
  /\ last.op = "get_face_values"
  /\ last.a = <<"eq">>
  /\ err = "NullFunctionPointer"
  /\ Locked(eqp)
  /\ eqp.space_scheme = "CS_SPACE_SCHEME_CDOVB"
  /\ eq.get_f_values = NULL
  /\ fld.defined

\* C18: a cs_equation_init_system call on an equation that has been set
\* up and has its field returns with the builder allocated and the initial
\* source terms computed; the values of the initial conditions are written
\* in the field exactly when the equation is unsteady and has at least one
\* definition of initial condition, and otherwise the field is as it was,
\* at its allocation-time zeros as long as nothing has been solved.
C18_InitSystem ==
  [][ (last'.op = "init_system" /\ eq.init_builder # NULL /\ fld.defined)
      => /\ err' = "none"
         /\ eq'.builder # NoObject
         /\ eq'.builder.source_computed
         /\ IF "CS_EQUATION_UNSTEADY" \in eqp.flag /\ eqp.time_info.n_ic_definitions >= 1
              THEN fld'.val = [kind |-> "ic", n |-> eqp.time_info.n_ic_definitions]
              ELSE /\ fld' = fld
                   /\ cnt.solves = 0 => fld.val = ZeroValues ]_vars

C18_Witness ==
  /\ last.op = "init_system"
  /\ err = "none"
  /\ "CS_EQUATION_UNSTEADY" \in eqp.flag
  /\ eqp.time_info.n_ic_definitions = 1
  /\ eq.builder # NoObject
  /\ fld.val = [kind |-> "ic", n |-> 1]

\* C19: a cs_equation_solve call on an equation that has been set up and
\* built, and has its field, returns whatever the convergence code and has
\* run the linear solver exactly once: the previous values of the
\* field are the values before the call (for a field that keeps previous
\* values), the field holds the solution, the system is stale if the
\* equation is unsteady and as it was otherwise, and the set-up data of the
\* solver are released.
C19_SolveOnceAnyCode ==
  [][ ( /\ last'.op = "solve"
        /\ eq.get_tmpbuf # NULL /\ fld.defined
        /\ eq.matrix # NoObject /\ eq.builder # NoObject )
      => LET f_id == eq.field_id
             n_calls == IF f_id \in DOMAIN sles THEN sles[f_id].n_calls ELSE 0
         IN  /\ last'.a[1] \in ConvergenceCodes
             /\ err' = "none"
             /\ sles'[f_id].n_calls = n_calls + 1
             /\ ~ sles'[f_id].setup
             /\ fld.has_previous => fld'.val_pre = fld.val
             /\ fld'.val = [kind |-> "sol", n |-> cnt'.solves]
             /\ eq'.do_build = ("CS_EQUATION_UNSTEADY" \in eqp.flag \/ eq.do_build) ]_vars

\* A second solve, which has not converged, of an unsteady equation
C19_Witness ==
  /\ last.op = "solve"
  /\ last.a = <<"CS_SLES_DIVERGED">>
  /\ err = "none"
  /\ cnt.solves = 2
  /\ fld.has_previous
  /\ fld.val = [kind |-> "sol", n |-> 2]
  /\ fld.val_pre = [kind |-> "sol", n |-> 1]
  /\ sles[eq.field_id].n_calls = 2
  /\ ~ sles[eq.field_id].setup
  /\ eq.do_build

\* C20: a cs_equation_extra_op call that returns has called the extra
\* operation of the builder exactly when it was given an equation whose
\* post-processing is not suppressed; an accepted option extra_op = none
\* suppresses it, and no later call gives it back.
C20_ExtraOpSuppressed ==
  [][ /\ (last'.op = "extra_op" /\ err' = "none")
          => (last'.called # NULL
                <=> (last'.a = <<"eq">> /\ "CS_EQUATION_POST_NONE" \notin eqp.process_flag))
      /\ (last'.op = "set_option" /\ last'.a = <<"extra_op", "none">> /\ err' = "none")
          => "CS_EQUATION_POST_NONE" \in eqp'.process_flag
      /\ "CS_EQUATION_POST_NONE" \in eqp.process_flag
          => /\ "CS_EQUATION_POST_NONE" \in eqp'.process_flag
             /\ last'.op = "extra_op" => (err' # "none" \/ last'.called = NULL) ]_vars

\* The extra operation has been skipped for an equation set up with the
\* options extra_op = none, then extra_op = peclet
C20_Witness ==
  /\ last.op = "extra_op"
  /\ last.a = <<"eq">>
  /\ err = "none"
  /\ last.called = NULL
  /\ eqp.process_flag = {"CS_EQUATION_POST_NONE", "CS_EQUATION_POST_PECLET"}
  /\ Locked(eqp)
  /\ fld.defined
  /\ eq.postprocess # NULL

(***************************************************************************)
(* Properties of cs_equation_free                                          *)
(***************************************************************************)
\* C21: cs_equation_free with no equation returns a null pointer and has
\* no effect; with an equation it returns a null pointer and nothing that
\* the equation owned is still allocated: neither its matrix structure,
\* matrix, right-hand side and builder, nor its definitions of boundary
\* conditions, reaction terms, source terms and initial conditions.
C21_FreeReleasesAll ==
  [][ last'.op = "free"
      => /\ err' = "none"
         /\ last'.ret = NoObject
         /\ IF last'.a = <<NULL>>
              THEN last'.allocated = Allocated(eq, eqp)
              ELSE last'.allocated = {} ]_vars

\* An equation with one initial condition has been set up and freed: its
\* definitions of initial conditions are still allocated
C21_Witness ==
  /\ last.op = "free"
  /\ last.a = <<"eq">>
  /\ err = "none"
  /\ last.ret = NoObject
  /\ eqp.time_info.n_ic_definitions = 1
  /\ last.allocated = {"ic_definitions"}

(***************************************************************************)
(* Properties of the reaction terms                                        *)
(***************************************************************************)
\* No reaction term of p has the name
NoTermNamed(p, r_name) ==
  \A i \in 1..Len(p.reaction_terms) : p.reaction_terms[i].name # r_name

\* C22: for every reaction term of the equation, registered under a name
\* (given, or the default one) with a property,
\* cs_equation_get_reaction_property with that name returns that property.
C22_PropertyOfEveryTerm ==
  [][ (last'.op = "get_reaction_property" /\ last'.a[1] = "eq")
      => \A i \in 1..Len(eqp.reaction_terms) :
            eqp.reaction_terms[i].name = last'.a[2]
              => (err' = "none" /\ last'.ret = eqp.reaction_properties[i]) ]_vars

\* Two terms have been registered under one name with two properties, and
\* the property of the first has been returned
C22_Witness ==
  /\ last.op = "get_reaction_property"
  /\ last.a = <<"eq", "decay">>
  /\ err = "none"
  /\ eqp.n_reaction_terms = 2
  /\ eqp.reaction_terms[2].name = "decay"
  /\ eqp.reaction_properties[2] = "conductivity"
  /\ last.ret = "unity"

C24_MatrixWithRhs ==
  /\ (eq.matrix = NoObject) <=> (eq.rhs = NoObject)
  /\ cnt.builds = 0 => (eq.matrix = NoObject /\ eq.rhs = NoObject)
  /\ (cnt.builds > 0 /\ err = "none") => (eq.matrix # NoObject /\ eq.rhs # NoObject)

\* A second build has returned, after a solve
C24_Witness ==
  /\ last.op = "build_system"
  /\ err = "none"
  /\ cnt.builds = 2
  /\ cnt.solves = 1
  /\ eq.matrix # NoObject
  /\ eq.rhs = [pass |-> 2]

TermFlags ==
  {"CS_EQUATION_DIFFUSION", "CS_EQUATION_UNSTEADY", "CS_EQUATION_CONVECTION",
   "CS_EQUATION_REACTION"}

\* The handles of the terms that cs_equation_link sets
TermHandles(p) == <<p.diffusion_property, p.time_property, p.advection_field>>

\* C25: cs_equation_link with the keyword diffusion, time or advection
\* stores the handle given and adds the flag of that term and no other,
\* the other handles being unchanged; with any other keyword it stops on
\* the error InvalidTerm, flags and handles unchanged.  No call removes the
\* flag of a term.
C25_LinkRaisesOneFlag ==
  [][ /\ last'.op = "link"
          => LET keyword == last'.a[1]
                 pointer == last'.a[2]
             IN  CASE keyword = "diffusion" ->
                        /\ err' = "none"
                        /\ eqp'.flag = eqp.flag \cup {"CS_EQUATION_DIFFUSION"}
                        /\ TermHandles(eqp') = <<pointer, eqp.time_property, eqp.advection_field>>
                   [] keyword = "time" ->
                        /\ err' = "none"
                        /\ eqp'.flag = eqp.flag \cup {"CS_EQUATION_UNSTEADY"}
                        /\ TermHandles(eqp') = <<eqp.diffusion_property, pointer, eqp.advection_field>>
                   [] keyword = "advection" ->
                        /\ err' = "none"
                        /\ eqp'.flag = eqp.flag \cup {"CS_EQUATION_CONVECTION"}
                        /\ TermHandles(eqp') = <<eqp.diffusion_property, eqp.time_property, pointer>>
                   [] OTHER ->
                        /\ err' = "InvalidTerm"
                        /\ eqp' = eqp
      /\ (eqp.flag \cap TermFlags) \subseteq eqp'.flag ]_vars

\* The time term has been linked to an equation that had its diffusion
\* term
C25_Witness ==
  /\ last.op = "link"
  /\ last.a = <<"time", "conductivity">>
  /\ err = "none"
  /\ eqp.flag = {"CS_EQUATION_DIFFUSION", "CS_EQUATION_UNSTEADY"}
  /\ eqp.time_property = "conductivity"
  /\ eqp.diffusion_property = "unity"

(***************************************************************************)
(* Claims on the post-processing registry and on the output                *)
(***************************************************************************)
WriterIdsOf(p) == {p.writers[i].id : i \in 1..Len(p.writers)}

MeshIdsOf(p) == {p.meshes[i].id : i \in 1..Len(p.meshes)}

\* The mesh of that id, for an id that is assigned
MeshOfId(p, mesh_id) == p.meshes[_cs_post_mesh_id(p, mesh_id) + 1]

\* The positions of the writers associated with a mesh
WritersOf(post_mesh) ==
  {post_mesh.writer_id[i] : i \in 1..Len(post_mesh.writer_id)}

MeshAddingCalls ==
  {"cs_post_add_mesh", "cs_post_add_existing_mesh", "cs_post_alias_mesh",
   "cs_post_add_mesh_edges"}

\* C26: after every call no writer and no mesh has the id 0, no two writers
\* and no two meshes have the same id; a call that asks for a writer or a
\* mesh of id 0, or of an id that is assigned, fails and leaves the registry
\* as it was.
C26_IdsNonZeroAndUnique ==
  [][ /\ 0 \notin WriterIdsOf(post') \cup MeshIdsOf(post')
      /\ \A i, j \in 1..Len(post'.writers) :
            post'.writers[i].id = post'.writers[j].id => i = j
      /\ \A i, j \in 1..Len(post'.meshes) :
            post'.meshes[i].id = post'.meshes[j].id => i = j
      /\ (/\ last'.op = "cs_post_add_writer"
          /\ last'.a[1] \in {0} \cup WriterIdsOf(post))
         => (err' # "none" /\ post' = post)
      /\ (/\ last'.op \in MeshAddingCalls
          /\ last'.a[1] \in {0} \cup MeshIdsOf(post))
         => (err' # "none" /\ post' = post)
    ]_vars

\* A mesh asked for under the id of another one, with three meshes and a
\* writer in the registry
C26_Witness ==
  /\ last.op = "cs_post_alias_mesh"
  /\ err = "MeshIdAssigned"
  /\ Len(post.meshes) = 3
  /\ Len(post.writers) = 1

\* The time that makes a writer of time frequency active: the time since the
\* last output is short of the frequency by a millionth of it at most
WithinFrequency(writer, t_cur_abs) ==
  writer.frequency_t - (t_cur_abs - writer.t_last)
    <= writer.frequency_t \div 1000000

\* C27, as stated: cs_post_activate_if_default(nt, t) makes a writer active
\* if n_last = nt; otherwise, with a positive time frequency, exactly when
\* t - t_last is the frequency or more; otherwise, with a positive step
\* frequency, exactly when nt is a multiple of it; otherwise inactive.
C27_ReachedFrequency ==
  [][ last'.op = "cs_post_activate_if_default" =>
        /\ err' = "none"
        /\ Len(post'.writers) = Len(post.writers)
        /\ \A i \in 1..Len(post.writers) :
              LET writer == post.writers[i]
                  nt == last'.a[1]
                  t == last'.a[2]
                  active ==
                    IF writer.n_last = nt THEN TRUE
                    ELSE IF writer.frequency_t > 0
                    THEN t - writer.t_last >= writer.frequency_t
                    ELSE IF writer.frequency_n > 0
                    THEN \E k \in -4..4 : nt = k * writer.frequency_n
                    ELSE FALSE
              IN  post'.writers[i].active = IF active THEN 1 ELSE 0
    ]_vars

\* C27, amended: the same with the tolerance of the code on the time
\* frequency, nothing else of the writer being changed.
C27_WithinFrequency ==
  [][ last'.op = "cs_post_activate_if_default" =>
        /\ err' = "none"
        /\ Len(post'.writers) = Len(post.writers)
        /\ post'.meshes = post.meshes
        /\ \A i \in 1..Len(post.writers) :
              LET writer == post.writers[i]
                  nt == last'.a[1]
                  t == last'.a[2]
                  active ==
                    IF writer.n_last = nt THEN TRUE
                    ELSE IF writer.frequency_t > 0
                    THEN WithinFrequency(writer, t)
                    ELSE IF writer.frequency_n > 0
                    THEN \E k \in -4..4 : nt = k * writer.frequency_n
                    ELSE FALSE
              IN  post'.writers[i] =
                    [writer EXCEPT !.active = IF active THEN 1 ELSE 0]
    ]_vars

\* A writer made active before the time since its last output has reached
\* its frequency, next to a writer whose step frequency leaves it inactive
C27_Witness ==
  /\ last.op = "cs_post_activate_if_default"
  /\ \E i \in 1..Len(post.writers) :
        /\ post.writers[i].frequency_t > 0
        /\ post.writers[i].n_last # last.a[1]
        /\ post.writers[i].active = 1
        /\ last.a[2] - post.writers[i].t_last < post.writers[i].frequency_t
  /\ \E i \in 1..Len(post.writers) :
        /\ post.writers[i].frequency_t <= 0
        /\ post.writers[i].frequency_n > 0
        /\ post.writers[i].n_last # last.a[1]
        /\ post.writers[i].active = 0

\* C28: cs_post_write_var and cs_post_write_vertex_var hand the variable to
\* the writers that are associated with the mesh and active, and to no
\* other; such a writer has n_last and t_last set to the step and the time
\* of the call exactly when the step is not negative, and any other writer
\* is left as it was.
C28_OnlyActiveAssociatedWriters ==
  [][ (/\ last'.op \in {"cs_post_write_var", "cs_post_write_vertex_var"}
       /\ last'.a[1] \in MeshIdsOf(post)) =>
        LET post_mesh == MeshOfId(post, last'.a[1])
            nt == last'.a[2]
            t == last'.a[3]
        IN  /\ err' = "none"
            /\ post'.meshes = post.meshes
            /\ Len(post'.writers) = Len(post.writers)
            /\ \A e \in last'.out :
                  /\ e.kind = IF last'.op = "cs_post_write_var"
                              THEN "per_element" ELSE "per_node"
                  /\ e.mesh = post_mesh.exp_mesh /\ e.nt = nt /\ e.t = t
            /\ \A i \in 1..Len(post.writers) :
                  LET writer == post.writers[i]
                  IN  IF (i - 1) \in WritersOf(post_mesh) /\ writer.active = 1
                      THEN /\ \E e \in last'.out : e.writer = i - 1
                           /\ post'.writers[i] =
                                IF nt >= 0
                                THEN [writer EXCEPT !.n_last = nt, !.t_last = t]
                                ELSE writer
                      ELSE /\ \A e \in last'.out : e.writer # i - 1
                           /\ post'.writers[i] = writer
    ]_vars

\* A variable written through one writer of the mesh while another writer
\* of the mesh is inactive and a third one, active, is not of the mesh
C28_Witness ==
  /\ last.op \in {"cs_post_write_var", "cs_post_write_vertex_var"}
  /\ err = "none"
  /\ last.a[1] \in MeshIdsOf(post)
  /\ last.a[2] >= 0
  /\ \E i, j \in WritersOf(MeshOfId(post, last.a[1])) :
        /\ post.writers[i + 1].active = 1
        /\ post.writers[i + 1].n_last = last.a[2]
        /\ post.writers[j + 1].active = 0
        /\ post.writers[j + 1].n_last # last.a[2]
        /\ \E e \in last.out : e.writer = i

\* C29: associating a writer that is associated with the mesh changes
\* nothing and exports nothing; a first association adds the writer once,
\* and exports the mesh in the call exactly when the writer allows fixed
\* meshes only; through a writer that allows more, a mesh is exported only
\* by cs_post_write_meshes, for a mesh of that writer, while it is active.
C29_AssociateThenWriteMeshes ==
  [][ /\ (/\ last'.op = "cs_post_associate"
          /\ err' = "none") =>
           LET _mesh_id == _cs_post_mesh_id(post, last'.a[1])
               _writer_id == _cs_post_writer_id(post, last'.a[2])
               post_mesh == post.meshes[_mesh_id + 1]
               writer == post.writers[_writer_id + 1]
           IN  IF _writer_id \in WritersOf(post_mesh)
               THEN post' = post /\ last'.out = {}
               ELSE /\ post'.meshes[_mesh_id + 1].writer_id
                         = Append(post_mesh.writer_id, _writer_id)
                    /\ post'.writers = post.writers
                    /\ last'.out =
                         IF writer.writer.time_dep = FVM_WRITER_FIXED_MESH
                         THEN {Export("mesh", _writer_id, post_mesh.exp_mesh, 0, 0)}
                         ELSE {}
      /\ \A e \in last'.out :
            (/\ e.kind = "mesh"
             /\ post'.writers[e.writer + 1].writer.time_dep
                   # FVM_WRITER_FIXED_MESH) =>
               /\ last'.op = "cs_post_write_meshes"
               /\ post.writers[e.writer + 1].active = 1
               /\ \E i \in 1..Len(post.meshes) :
                     /\ post.meshes[i].exp_mesh = e.mesh
                     /\ e.writer \in WritersOf(post.meshes[i])
    ]_vars

\* A mesh exported by cs_post_write_meshes through a writer that was added
\* and associated with it after the main ones
C29_Witness ==
  /\ last.op = "cs_post_write_meshes"
  /\ \E e \in last.out :
        /\ e.kind = "mesh"
        /\ post.writers[e.writer + 1].id = 1
        /\ post.writers[e.writer + 1].active = 1

\* An alias of the mesh: it shares the exportable mesh it does not own
AliasesOf(p, post_mesh) ==
  {i \in 1..Len(p.meshes) :
     /\ p.meshes[i].alias > -1
     /\ post_mesh.alias = -1
     /\ p.meshes[i].exp_mesh = post_mesh.exp_mesh}

\* C30: cs_post_free_mesh fails and leaves the registry as it was when the
\* mesh has an alias or a writer that allows time-varying meshes; otherwise
\* it removes that mesh and no other, and every other mesh keeps its id,
\* its writers and its exportable mesh, which is not destroyed.
C30_FreeMeshUnlessReferenced ==
  [][ (/\ last'.op = "cs_post_free_mesh"
       /\ last'.a[1] \in MeshIdsOf(post)) =>
        LET _mesh_id == _cs_post_mesh_id(post, last'.a[1])
            post_mesh == post.meshes[_mesh_id + 1]
            kept == SubSeq(post.meshes, 1, _mesh_id)
                    \o SubSeq(post.meshes, _mesh_id + 2, Len(post.meshes))
        IN  IF \/ AliasesOf(post, post_mesh) # {}
               \/ \E w \in WritersOf(post_mesh) :
                     post.writers[w + 1].writer.time_dep # FVM_WRITER_FIXED_MESH
            THEN err' # "none" /\ post' = post
            ELSE /\ err' = "none"
                 /\ Len(post'.meshes) = Len(kept)
                 /\ \A i \in 1..Len(kept) :
                       /\ post'.meshes[i].id = kept[i].id
                       /\ post'.meshes[i].writer_id = kept[i].writer_id
                       /\ post'.meshes[i].exp_mesh = kept[i].exp_mesh
                       /\ kept[i].exp_mesh \notin post'.destroyed
                 /\ post'.writers = post.writers
    ]_vars

\* A mesh removed while an alias of another mesh and a mesh with a writer
\* stay in the registry
C30_Witness ==
  /\ last.op = "cs_post_free_mesh"
  /\ err = "none"
  /\ Len(post.meshes) = 2
  /\ post.meshes[2].alias > -1
  /\ post.meshes[1].exp_mesh = post.meshes[2].exp_mesh
  /\ post.destroyed # {}

(***************************************************************************)
(* Time dependency of a mesh and of its aliases                            *)
(***************************************************************************)
\* The meshes at the positions in group, and the time dependencies of the
\* writers associated with one of them
TimeDepsOf(p, group) ==
  {p.writers[w + 1].writer.time_dep :
     w \in UNION {WritersOf(p.meshes[i]) : i \in group}}

\* The positions of a mesh that is not an alias and of its aliases
AliasGroup(p, i) ==
  {i} \cup {j \in 1..Len(p.meshes) : p.meshes[j].alias = i - 1}

\* C31: in every state reached by adding writers and meshes, aliasing and
\* associating, a mesh and each of its aliases have the same mod_flag_min
\* and the same mod_flag_max, which are the least and the greatest time
\* dependency of the writers associated with the mesh or with one of its
\* aliases, as soon as there is one such writer.
C31_AliasSharesTimeDependency ==
  \A i \in 1..Len(post.meshes) :
     post.meshes[i].alias = -1 =>
       LET group == AliasGroup(post, i)
           deps == TimeDepsOf(post, group)
       IN  deps # {} =>
             \A j \in group :
                /\ \A d \in deps : post.meshes[j].mod_flag_min <= d
                /\ post.meshes[j].mod_flag_min \in deps
                /\ \A d \in deps : post.meshes[j].mod_flag_max >= d
                /\ post.meshes[j].mod_flag_max \in deps

\* A writer that allows a change of connectivity is associated with a mesh
\* that has an alias
C31_Witness ==
  /\ last.op = "cs_post_associate"
  /\ err = "none"
  /\ Len(post.meshes) = 2
  /\ post.meshes[2].alias = 0
  /\ WritersOf(post.meshes[1]) # {}
  /\ FVM_WRITER_TRANSIENT_CONNECT \in TimeDepsOf(post, {1})

(***************************************************************************)
(* Order of the steps of a solve, staleness flag, driver loop              *)
(***************************************************************************)
\* C32: in every cs_equation_solve that returns, the steps are, in this
\* order: the initial guess is copied from the current values of the field,
\* the linear solver is run, with the field untouched, the current values
\* are copied to the previous ones (for a field that keeps previous
\* values), update_field writes the solution in the field, the system is
\* marked stale if the equation is unsteady, and the set-up data of the
\* solver are released last; the previous values are then the values the
\* field had before the solve, and the last step leaves the state in which
\* the call returns.
C32_SolveStepsInOrder ==
  [][ (last'.op = "solve" /\ err' = "none")
      => LET s == SolveSteps(eq, eqp, fld, sles, last'.a[1], cnt'.solves)
             f_id == eq.field_id
         IN  /\ [i \in 1..Len(s) |-> s[i].step]
                  = << "x = fld->val", "cs_sles_solve",
                       "cs_field_current_to_previous", "update_field",
                       "do_build", "cs_sles_free" >>
             /\ s[1].x = fld.val
             /\ s[2].fld = fld /\ s[2].sles[f_id].setup
             /\ s[3].fld.val = fld.val
             /\ fld.has_previous => s[3].fld.val_pre = fld.val
             /\ s[4].fld.val = s[2].x /\ s[4].fld.val_pre = s[3].fld.val_pre
             /\ s[4].do_build = eq.do_build
             /\ s[5].do_build = ("CS_EQUATION_UNSTEADY" \in eqp.flag \/ eq.do_build)
             /\ s[5].sles[f_id].setup
             /\ ~ s[6].sles[f_id].setup
             /\ fld' = s[6].fld /\ sles' = s[6].sles
             /\ eq'.do_build = s[6].do_build
             /\ fld.has_previous => fld'.val_pre = fld.val ]_vars

\* A second solve of an unsteady equation: the previous values are the
\* solution of the first solve
C32_Witness ==
  /\ last.op = "solve"
  /\ err = "none"
  /\ cnt.solves = 2
  /\ fld.has_previous
  /\ fld.val_pre = [kind |-> "sol", n |-> 1]
  /\ fld.val = [kind |-> "sol", n |-> 2]
  /\ eq.do_build

\* C33: eq->do_build is true as long as cs_equation_build_system has not
\* been called, and false when a cs_equation_build_system has just
\* returned; the matrix structure and the matrix are absent before the
\* first build, are the objects created by the first build after any
\* number of builds, and hold the coefficients of the last build.
C33_FlagAndMatrixObjects ==
  /\ cnt.builds = 0 => (eq.do_build /\ eq.ms = NoObject /\ eq.matrix = NoObject)
  /\ (last.op = "build_system" /\ err = "none") => ~ eq.do_build
  /\ (cnt.builds > 0 /\ err = "none")
       => /\ eq.ms # NoObject /\ eq.matrix # NoObject
          /\ eq.ms.created_by = 1
          /\ eq.matrix.created_by = 1
          /\ eq.matrix.coefs = cnt.builds

\* The second build of an unsteady equation, after a solve had marked its
\* system stale
C33_Witness ==
  /\ last.op = "build_system"
  /\ err = "none"
  /\ cnt.builds = 2
  /\ cnt.solves = 1
  /\ "CS_EQUATION_UNSTEADY" \in eqp.flag
  /\ ~ eq.do_build
  /\ eq.matrix = [created_by |-> 1, coefs |-> 2]

\* C34: a cs_equation_solve issued while cs_equation_needs_build is true,
\* on an equation that has its functions, its field, its builder and a
\* matrix from an earlier build, is not refused: it returns, has run the
\* linear solver once with the matrix and the right-hand side of that
\* earlier build, which it leaves as they were, and has written the
\* solution in the field, exactly as the same call does when the flag is
\* false.  A cs_equation_build_system on an equation that cs_equation_init_system
\* has not given a builder is not refused by a check either: the build
\* function of the scheme is called with the absent builder, and the run
\* ends there.
C34_NoLifecycleCheck ==
  [][ /\ ( /\ last'.op = "solve"
            /\ cs_equation_needs_build(eq)
            /\ eq.get_tmpbuf # NULL /\ fld.defined
            /\ eq.matrix # NoObject /\ eq.builder # NoObject )
          => LET f_id == eq.field_id
                 n_calls == IF f_id \in DOMAIN sles THEN sles[f_id].n_calls ELSE 0
                 fresh == SolveResult([eq EXCEPT !.do_build = FALSE], eqp, fld,
                                      sles, last'.a[1], cnt'.solves)
             IN  /\ err' = "none"
                 /\ eq'.matrix = eq.matrix /\ eq'.rhs = eq.rhs /\ eq'.ms = eq.ms
                 /\ sles'[f_id].n_calls = n_calls + 1
                 /\ fld'.val = [kind |-> "sol", n |-> cnt'.solves]
                 /\ fresh.err = err' /\ fresh.fld = fld' /\ fresh.sles = sles'
      /\ ( /\ last'.op = "build_system"
            /\ eq.build_system # NULL /\ fld.defined
            /\ eq.builder = NoObject )
          => /\ err' = "NullFunctionPointer"
             /\ eq' = eq ]_vars

\* Two solves of an unsteady equation after its only build: the second one
\* was issued with the system marked stale by the first
C34_Witness ==
  /\ last.op = "solve"
  /\ err = "none"
  /\ "CS_EQUATION_UNSTEADY" \in eqp.flag
  /\ cnt.builds = 1
  /\ cnt.solves = 2
  /\ eq.rhs = [pass |-> 1]
  /\ eq.matrix = [created_by |-> 1, coefs |-> 1]
  /\ fld.val = [kind |-> "sol", n |-> 2]

\* C35: under the driver loop on an initialized equation, as long as no
\* call has failed, an unsteady equation has been built once for each
\* solve made, and once more when the build of the current iteration has
\* just been made; a steady equation has been built once as soon as the
\* first iteration has made its build, and never again.
C35_BuildsPerSolve ==
  (Initialized(eq) /\ err = "none") =>
     LET building == IF last.op = "build_system" THEN 1 ELSE 0
     IN  IF "CS_EQUATION_UNSTEADY" \in eqp.flag
         THEN cnt.builds = cnt.solves + building
         ELSE /\ cnt.builds = IF cnt.solves > 0 \/ building = 1 THEN 1 ELSE 0
              /\ cnt.solves > 0 => ~ cs_equation_needs_build(eq)

\* Two iterations of the loop on an unsteady equation
C35_Witness ==
  /\ Initialized(eq)
  /\ last.op = "solve"
  /\ err = "none"
  /\ "CS_EQUATION_UNSTEADY" \in eqp.flag
  /\ cnt.builds = 2
  /\ cnt.solves = 2

\* Two iterations of the loop on a steady equation
C35_WitnessSteady ==
  /\ Initialized(eq)
  /\ last.op = "solve"
  /\ err = "none"
  /\ "CS_EQUATION_UNSTEADY" \notin eqp.flag
  /\ cnt.builds = 1
  /\ cnt.solves = 2

(***************************************************************************)
(* Failed additions, release, key of the solver                            *)
(***************************************************************************)
\* C36: when cs_equation_add_bc, cs_equation_add_reaction or
\* cs_equation_add_source_term_by_val stops on an error, the parameter set
\* is as it was before the call: the numbers of boundary-condition
\* definitions, of reaction terms and of source terms are unchanged, and
\* so are the arrays they count.
C36_FailedAddKeepsCounts ==
  [][ ( /\ last'.op \in {"add_bc", "add_reaction", "add_source_term_by_val"}
        /\ err' # "none" )
      => /\ eqp'.bc.n_defs = eqp.bc.n_defs
         /\ eqp'.n_reaction_terms = eqp.n_reaction_terms
         /\ eqp'.n_source_terms = eqp.n_source_terms
         /\ eqp'.bc.defs = eqp.bc.defs
         /\ eqp'.reaction_terms = eqp.reaction_terms
         /\ eqp'.source_terms = eqp.source_terms ]_vars

\* A boundary condition has been refused for its mesh location, and the
\* definition that was not filled is counted
C36_Witness ==
  /\ last.op = "add_bc"
  /\ last.a[1] = "nowhere"
  /\ err = "InvalidMeshLocation"
  /\ eqp.bc.n_defs = 1
  /\ eqp.bc.defs = <<Unfilled>>

\* C37: cs_equation_free on the equation returns a null pointer without
\* error in every state of its life, an equation that was never set up
\* (no free_builder bound) and an equation set up but never initialized
\* (no builder) included.
C37_FreeFromEveryState ==
  [][ (last'.op = "free" /\ last'.a = <<"eq">>)
      => /\ err' = "none"
         /\ last'.ret = NoObject ]_vars

\* The equation has been freed before any cs_equation_last_setup: the run
\* has ended in the call of eq->free_builder
C37_Witness ==
  /\ last.op = "free"
  /\ last.a = <<"eq">>
  /\ cnt.setups = 0
  /\ eq.free_builder = NULL
  /\ err = "NullFunctionPointer"

\* The equation has been freed after its setup and before any
\* cs_equation_init_system
C37_WitnessLocked ==
  /\ last.op = "free"
  /\ last.a = <<"eq">>
  /\ Locked(eqp)
  /\ eq.builder = NoObject
  /\ err = "none"
  /\ last.ret = NoObject

\* C38: in whatever order cs_equation_create_field and
\* cs_equation_last_setup were called, every cs_equation_solve of a locked
\* equation looks its solver up under the key under which
\* cs_equation_last_setup has registered it: when the solve starts, the
\* registry has, under the field id of the equation, the solver that was
\* configured when the equation was locked.
C38_SolverKeyIsFieldId ==
  [][ (last'.op = "solve" /\ Locked(eqp) /\ eq.get_tmpbuf # NULL)
      => /\ eq.field_id \in DOMAIN sles
         /\ sles[eq.field_id].kind # NULL
         /\ eq.field_id \in DOMAIN sles'
         /\ sles'[eq.field_id].kind # NULL ]_vars

\* An equation locked before its field was created has been solved: its
\* solver is registered under -1, and the solve has used the entry of the
\* field id, which has no solver
C38_Witness ==
  /\ last.op = "solve"
  /\ err = "none"
  /\ Locked(eqp)
  /\ eq.field_id = 0
  /\ DOMAIN sles = {-1, 0}
  /\ sles[-1].kind # NULL
  /\ sles[-1].n_calls = 0
  /\ sles[0].kind = NULL
  /\ sles[0].n_calls = 1

(***************************************************************************)
(* Alias positions, exports at one time step                               *)
(***************************************************************************)
\* C39: in every state of the registry, the alias field of a mesh that has
\* one is the position, in the array of the meshes, of the mesh it was
\* made an alias of, the one whose exportable mesh it shares; that mesh is
\* another mesh and is not an alias.
C39_AliasNamesItsMesh ==
  \A i \in 1..Len(post.meshes) :
     post.meshes[i].alias > -1 =>
       /\ post.meshes[i].alias < Len(post.meshes)
       /\ post.meshes[i].alias + 1 # i
       /\ post.meshes[post.meshes[i].alias + 1].alias = -1
       /\ post.meshes[post.meshes[i].alias + 1].exp_mesh = post.meshes[i].exp_mesh

\* A mesh that precedes an aliased mesh has been removed: the alias is at
\* the position its alias field holds
C39_Witness ==
  /\ last.op = "cs_post_free_mesh"
  /\ err = "none"
  /\ Len(post.meshes) = 2
  /\ post.meshes[1].alias = -1
  /\ post.meshes[2].alias = 1
  /\ post.meshes[2].exp_mesh = post.meshes[1].exp_mesh

\* C40: when cs_post_write_meshes is called twice in a row at the same
\* time step, no mesh that the first call has exported through a writer is
\* exported through that writer again by the second call.
C40_ExportedOncePerStep ==
  [][ ( /\ last.op = "cs_post_write_meshes"
        /\ last'.op = "cs_post_write_meshes"
        /\ last'.a[1] = last.a[1] )
      => \A e \in last'.out :
            e.kind = "mesh" =>
              ~ \E f \in last.out :
                   /\ f.kind = "mesh"
                   /\ f.writer = e.writer
                   /\ f.mesh = e.mesh ]_vars

\* Two calls in a row at the time step 1 have exported the same mesh
\* through the same active writer; the last writer of an exported mesh is
\* inactive and its nt_last was left as it was
C40_Witness ==
  /\ last.op = "cs_post_write_meshes"
  /\ last.a[1] = 1
  /\ err = "none"
  /\ \E e \in last.out :
        /\ e.kind = "mesh"
        /\ post.writers[e.writer + 1].active = 1
        /\ post.writers[e.writer + 1].n_last = 1
  /\ \E i \in 1..Len(post.meshes) :
        /\ Len(post.meshes[i].writer_id) = 2
        /\ post.writers[post.meshes[i].writer_id[2] + 1].active = 0
        /\ post.meshes[i].nt_last < 1
====
